---- MODULE Spec2Model ----
(***************************************************************************)
(* FitBot: the streaming chat widget (src/src/components/AIChat.tsx).      *)
(*                                                                         *)
(* Text is a sequence of characters, each a one-character string; the     *)
(* bytes on the wire are the same strings for ASCII, plus the two bytes   *)
(* "C3" "A9" that encode the character "U+00E9".  The replacement         *)
(* character a TextDecoder emits for a broken sequence is "U+FFFD".       *)
(***************************************************************************)
EXTENDS Integers, Sequences, FiniteSets

(***************************************************************************)
(* Bounds of the model.                                                    *)
(***************************************************************************)
\* sendMessage calls that pass the guard in one behaviour
MaxRequests == 2
\* what the chat service does in one behaviour: one unit for every fetch it
\* settles, one for every event it writes into a response body
MaxService == 3
\* largest fragment the transport hands over, unless it hands over all the rest
MaxFrag == 3
\* the heaviest weight entered in the planner, in hundredths of a kilogram
MaxWeight == 12500

(***************************************************************************)
(* String primitives of the JavaScript runtime, as the code uses them.     *)
(***************************************************************************)
Min(a, b) == IF a < b THEN a ELSE b

\* s.indexOf(c): 1-based position of the first c, 0 when there is none (-1 in JS)
IndexOf(s, c) ==
    LET at == {i \in 1..Len(s) : s[i] = c}
    IN  IF at = {} THEN 0 ELSE CHOOSE i \in at : \A j \in at : i <= j

StartsWith(s, p) == Len(s) >= Len(p) /\ SubSeq(s, 1, Len(p)) = p

EndsWith(s, p) == Len(s) >= Len(p) /\ SubSeq(s, Len(s) - Len(p) + 1, Len(s)) = p

\* the white space String.prototype.trim removes, among the characters modelled
WhiteSpace == {" ", "\t", "\r", "\n"}

Trim(s) ==
    LET n == Len(s)
        \* the numbers of white-space characters at the start and at the end
        lead == CHOOSE k \in 0..n :
                    /\ \A i \in 1..k : s[i] \in WhiteSpace
                    /\ (k = n \/ s[k + 1] \notin WhiteSpace)
        trail == CHOOSE k \in 0..n :
                    /\ \A i \in (n - k + 1)..n : s[i] \in WhiteSpace
                    /\ (k = n \/ s[n - k] \notin WhiteSpace)
    IN  IF lead = n THEN << >> ELSE SubSeq(s, lead + 1, n - trail)

(***************************************************************************)
(* TextDecoder("utf-8").decode(value, {stream: true}).  `pend` is the lead *)
(* byte the decoder holds back between calls; the result is the text and   *)
(* the new pending bytes.                                                  *)
(***************************************************************************)
LeadByte == "C3"
ContByte == "A9"
Eacute == "U+00E9"
Replacement == "U+FFFD"

\* decode(value) without {stream: true}: nothing is held back, every fragment is
\* decoded on its own and a character cut by its end is malformed
Utf8DecodeNoStream(pend, bytes) ==
    [text |-> [i \in 1..Len(bytes) |->
                 IF bytes[i] = LeadByte
                 THEN IF i < Len(bytes) /\ bytes[i + 1] = ContByte THEN Eacute ELSE Replacement
                 ELSE IF bytes[i] = ContByte THEN Replacement
                 ELSE bytes[i]],
     pend |-> << >>]

\* Each byte of pend \o bytes yields one character or nothing: a lead byte
\* followed by its continuation yields the character, a lead byte that ends the
\* data is held back, any other lead or continuation byte is malformed.
Utf8Decode(pend, bytes) ==
    LET all == pend \o bytes
        n == Len(all)
        out == [i \in 1..n |->
                  IF all[i] = LeadByte
                  THEN IF i = n THEN ""
                       ELSE IF all[i + 1] = ContByte THEN Eacute ELSE Replacement
                  ELSE IF all[i] = ContByte
                  THEN IF i > 1 /\ all[i - 1] = LeadByte THEN "" ELSE Replacement
                  ELSE all[i]]
    IN  [text |-> SelectSeq(out, LAMBDA c : c # ""),
         pend |-> IF n > 0 /\ all[n] = LeadByte THEN <<LeadByte>> ELSE << >>]

(***************************************************************************)
(* JSON.parse, on the grammar the modelled payloads are drawn from:        *)
(*   value  ::= ws (object | array | string | null) ws                     *)
(*   object ::= { ws } | { ws string ws : value }                          *)
(*   array  ::= [ ws ] | [ value ]                                         *)
(*   string ::= " characters other than " \ and controls "                 *)
(* Any other text is a SyntaxError.  A value is a record tagged by t.      *)
(***************************************************************************)
Undefined == [t |-> "undefined"]
JsNull == [t |-> "null"]
ParseError == [ok |-> FALSE, val |-> Undefined, nxt |-> 0]

RECURSIVE SkipWs(_, _)
SkipWs(s, i) == IF i <= Len(s) /\ s[i] \in WhiteSpace THEN SkipWs(s, i + 1) ELSE i

ParseString(s, i) ==
    IF i > Len(s) \/ s[i] # "\"" THEN ParseError
    ELSE IF ~ \E j \in (i + 1)..Len(s) : s[j] = "\"" THEN ParseError
    ELSE LET j == i + IndexOf(SubSeq(s, i + 1, Len(s)), "\"")
             body == SubSeq(s, i + 1, j - 1)
         IN  IF \E k \in 1..Len(body) : body[k] \in {"\\", "\t", "\r", "\n"}
             THEN ParseError
             ELSE [ok |-> TRUE, val |-> [t |-> "string", s |-> body], nxt |-> j + 1]

RECURSIVE ParseValue(_, _)
ParseValue(s, i0) ==
    LET i == SkipWs(s, i0)
    IN  IF i > Len(s) THEN ParseError
        ELSE IF s[i] = "\"" THEN
            LET r == ParseString(s, i)
            IN  IF r.ok THEN [r EXCEPT !.nxt = SkipWs(s, r.nxt)] ELSE ParseError
        ELSE IF s[i] = "n" THEN
            IF SubSeq(s, i, Min(i + 3, Len(s))) = <<"n", "u", "l", "l">>
            THEN [ok |-> TRUE, val |-> JsNull, nxt |-> SkipWs(s, i + 4)]
            ELSE ParseError
        ELSE IF s[i] = "[" THEN
            LET j == SkipWs(s, i + 1)
            IN  IF j <= Len(s) /\ s[j] = "]"
                THEN [ok |-> TRUE, val |-> [t |-> "array0"], nxt |-> SkipWs(s, j + 1)]
                ELSE LET e == ParseValue(s, j)
                     IN  IF e.ok /\ e.nxt <= Len(s) /\ s[e.nxt] = "]"
                         THEN [ok |-> TRUE, val |-> [t |-> "array", v |-> e.val],
                               nxt |-> SkipWs(s, e.nxt + 1)]
                         ELSE ParseError
        ELSE IF s[i] = "{" THEN
            LET j == SkipWs(s, i + 1)
            IN  IF j <= Len(s) /\ s[j] = "}"
                THEN [ok |-> TRUE, val |-> [t |-> "object0"], nxt |-> SkipWs(s, j + 1)]
                ELSE LET k == ParseString(s, j)
                         c == SkipWs(s, k.nxt)
                     IN  IF k.ok /\ c <= Len(s) /\ s[c] = ":"
                         THEN LET m == ParseValue(s, c + 1)
                              IN  IF m.ok /\ m.nxt <= Len(s) /\ s[m.nxt] = "}"
                                  THEN [ok |-> TRUE,
                                        val |-> [t |-> "object", k |-> k.val.s, v |-> m.val],
                                        nxt |-> SkipWs(s, m.nxt + 1)]
                                  ELSE ParseError
                         ELSE ParseError
        ELSE ParseError

\* JSON.parse(text): the whole text must be one value; ok = FALSE is the SyntaxError
JSONParse(text) ==
    LET r == ParseValue(text, 1)
    IN  IF r.ok /\ r.nxt = Len(text) + 1 THEN [ok |-> TRUE, val |-> r.val]
        ELSE [ok |-> FALSE, val |-> Undefined]

(***************************************************************************)
(* parsed.choices?.[0]?.delta?.content, `if (content)` and `+= content`.   *)
(***************************************************************************)
KeyChoices == <<"c", "h", "o", "i", "c", "e", "s">>
KeyDelta == <<"d", "e", "l", "t", "a">>
KeyContent == <<"c", "o", "n", "t", "e", "n", "t">>

Nullish(v) == v.t \in {"undefined", "null"}

\* v.key for a value that is neither null nor undefined
Prop(v, key) == IF v.t = "object" /\ v.k = key THEN v.v ELSE Undefined

\* v[0] for a value that is neither null nor undefined
Index0(v) ==
    IF v.t = "array" THEN v.v
    ELSE IF v.t = "string" /\ v.s # << >> THEN [t |-> "string", s |-> <<v.s[1]>>]
    ELSE IF v.t = "object" THEN Prop(v, <<"0">>)
    ELSE Undefined

Truthy(v) == v.t \in {"object", "object0", "array", "array0"} \/ (v.t = "string" /\ v.s # << >>)

RECURSIVE JsString(_)
JsString(v) ==
    IF v.t = "string" THEN v.s
    ELSE IF v.t \in {"object", "object0"}
    THEN <<"[", "o", "b", "j", "e", "c", "t", " ", "O", "b", "j", "e", "c", "t", "]">>
    ELSE IF v.t = "array" THEN JsString(v.v)
    ELSE << >>

\* lines 89-90: threw = TRUE when JSON.parse or the property read throws
DeltaContent(jsonStr) ==
    LET parsed == JSONParse(jsonStr)
    IN  IF ~parsed.ok \/ parsed.val.t = "null" THEN [threw |-> TRUE, content |-> Undefined]
        ELSE LET choices == Prop(parsed.val, KeyChoices)
                 first == IF Nullish(choices) THEN Undefined ELSE Index0(choices)
                 delta == IF Nullish(first) THEN Undefined ELSE Prop(first, KeyDelta)
                 content == IF Nullish(delta) THEN Undefined ELSE Prop(delta, KeyContent)
             IN  [threw |-> FALSE, content |-> content]

(***************************************************************************)
(* The inner loop of sendMessage: lines are taken off the front of         *)
(* textBuffer until none is complete, [DONE] is met or a payload fails.    *)
(***************************************************************************)
DataPrefix == <<"d", "a", "t", "a", ":", " ">>
DoneSentinel == <<"[", "D", "O", "N", "E", "]">>

\* line 78
StripCR(line) == IF EndsWith(line, <<"\r">>) THEN SubSeq(line, 1, Len(line) - 1) ELSE line

\* a test that forgets line 80
IgnoredNoPrefixCheck(line) ==
    \/ StartsWith(line, <<":">>)
    \/ Trim(line) = << >>

\* lines 79-80: the lines the loop skips
Ignored(line) ==
    \/ StartsWith(line, <<":">>)
    \/ Trim(line) = << >>
    \/ ~StartsWith(line, DataPrefix)

\* line 82
Payload(line) == Trim(SubSeq(line, Len(DataPrefix) + 1, Len(line)))

\* the update written with an index that is off by one
UpdateLastOffByOne(prev, assistantContent) ==
    IF Len(prev) < 2 THEN prev
    ELSE [prev EXCEPT ![Len(prev) - 1] = [role |-> "assistant", content |-> assistantContent]]

\* lines 93-100: the functional update replaces the last element
UpdateLast(prev, assistantContent) ==
    IF prev = << >> THEN prev
    ELSE [prev EXCEPT ![Len(prev)] = [role |-> "assistant", content |-> assistantContent]]

\* a push-back that forgets the newline taken off with the line
PushBackNoNewline(line, textBuffer) == line \o textBuffer

\* line 103
PushBack(line, textBuffer) == line \o <<"\n">> \o textBuffer

\* The inner loop runs on a state [buf, content, msgs, done, stop, trace]:
\* textBuffer, assistantContent, the message list, streamDone, whether a
\* break was taken, and (history) for each line examined the raw line, what
\* was done with it and the text it applied.
Note(st, raw, act, text) == Append(st.trace, [raw |-> raw, act |-> act, text |-> text])

\* an ignored line that ends the run of the loop
SkipAndBreak(st, raw, rest) ==
    [st EXCEPT !.buf = rest, !.stop = TRUE, !.trace = Note(st, raw, "skip", << >>)]

\* lines 79-80: continue
Skip(st, raw, rest) ==
    [st EXCEPT !.buf = rest, !.trace = Note(st, raw, "skip", << >>)]

\* lines 83-86
StreamEnd(st, raw, rest) ==
    [st EXCEPT !.buf = rest, !.done = TRUE, !.stop = TRUE,
               !.trace = Note(st, raw, "done", << >>)]

\* a catch that takes a payload that does not parse for the end of the stream
RetryAsEnd(st, raw, line, rest) ==
    [st EXCEPT !.buf = PushBack(line, rest), !.done = TRUE, !.stop = TRUE,
               !.trace = Note(st, raw, "pushback", << >>)]

\* a catch that pushes the line back and goes on with the loop
RetryNoBreak(st, raw, line, rest) ==
    [st EXCEPT !.buf = PushBack(line, rest),
               !.trace = Note(st, raw, "pushback", << >>)]

\* lines 102-105
Retry(st, raw, line, rest) ==
    [st EXCEPT !.buf = PushBack(line, rest), !.stop = TRUE,
               !.trace = Note(st, raw, "pushback", << >>)]

\* a loop that takes a record without text for a malformed one
EmitOrPushBack(st, raw, rest, content) ==
    IF Truthy(content)
    THEN [st EXCEPT !.buf = rest,
                    !.content = @ \o JsString(content),
                    !.msgs = UpdateLast(@, st.content \o JsString(content)),
                    !.trace = Note(st, raw, "delta", JsString(content))]
    ELSE [st EXCEPT !.buf = PushBack(StripCR(raw), rest), !.stop = TRUE,
                    !.trace = Note(st, raw, "pushback", << >>)]

\* lines 91-101
Emit(st, raw, rest, content) ==
    IF Truthy(content)
    THEN [st EXCEPT !.buf = rest,
                    !.content = @ \o JsString(content),
                    !.msgs = UpdateLast(@, st.content \o JsString(content)),
                    !.trace = Note(st, raw, "delta", JsString(content))]
    ELSE [st EXCEPT !.buf = rest, !.trace = Note(st, raw, "nodelta", << >>)]

\* lines 75-105: one pass of the loop body
LoopBody(st) ==
    LET newlineIndex == IndexOf(st.buf, "\n")
        raw == SubSeq(st.buf, 1, newlineIndex - 1)
        rest == SubSeq(st.buf, newlineIndex + 1, Len(st.buf))
        line == StripCR(raw)
        jsonStr == Payload(line)
        d == DeltaContent(jsonStr)
    IN  IF Ignored(line) THEN Skip(st, raw, rest)
        ELSE IF jsonStr = DoneSentinel THEN StreamEnd(st, raw, rest)
        ELSE IF d.threw THEN Retry(st, raw, line, rest)
        ELSE Emit(st, raw, rest, d.content)

\* the texts a run of the loop applied to the message list, in order
Applied(trace) ==
    SelectSeq([i \in 1..Len(trace) |-> trace[i].text], LAMBDA t : t # << >>)

\* lines 74-106
RECURSIVE ProcessLines(_)
ProcessLines(st) ==
    IF st.stop \/ IndexOf(st.buf, "\n") = 0 THEN st ELSE ProcessLines(LoopBody(st))

(***************************************************************************)
(* The chat service and the transport (the environment of the widget).     *)
(* A response body is a sequence of events, each a line of bytes.          *)
(***************************************************************************)
\* a record whose delta content is the JSON text `value`
DeltaRecord(value) ==
    <<"{", "\"">> \o KeyChoices \o <<"\"", ":", "[", "{", "\"">> \o KeyDelta
        \o <<"\"", ":", "{", "\"">> \o KeyContent \o <<"\"", ":">> \o value
        \o <<"}", "}", "]", "}">>

DeltaJson(text) == DeltaRecord(<<"\"">> \o text \o <<"\"">>)

\* the bytes of each event the service can write
Wire(e) ==
    CASE e = "deltaA" -> DataPrefix \o DeltaJson(<<"a">>) \o <<"\n">>
      [] e = "deltaE" -> DataPrefix \o DeltaJson(<<LeadByte, ContByte>>) \o <<"\r", "\n">>
      [] e = "done" -> DataPrefix \o DoneSentinel \o <<"\n">>
      [] e = "comment" -> <<":", "k", "\n">>
      [] e = "blank" -> <<"\r", "\n">>
      [] e = "empty" -> DataPrefix \o <<"{", "}", "\n">>
      \* records whose content is the empty string, and an empty array
      [] e = "deltaNone" -> DataPrefix \o DeltaJson(<< >>) \o <<"\n">>
      [] e = "deltaArr" -> DataPrefix \o DeltaRecord(<<"[", "]">>) \o <<"\n">>
      \* a record cut short, and the text that would have completed it
      [] e = "cut" -> DataPrefix \o <<"{", "\r", "\n">>
      [] e = "rest" -> Tail(DeltaJson(<<"a">>)) \o <<"\n">>
      \* a record that no newline follows
      [] e = "tail" -> DataPrefix \o DeltaJson(<<"a">>)

Events ==
    {"deltaA", "deltaE", "deltaNone", "deltaArr", "done", "comment", "blank", "empty",
     "cut", "rest", "tail"}

RECURSIVE Flatten(_)
Flatten(es) == IF es = << >> THEN << >> ELSE Wire(Head(es)) \o Flatten(Tail(es))

\* the event sequences a body can be made of when n events may still be served
EventSeqs(n) == UNION {[1..k -> Events] : k \in 0..n}

(***************************************************************************)
(* State.                                                                  *)
(***************************************************************************)
VARIABLES
    messages,   \* useState<Message[]>
    input,      \* useState("")
    loading,    \* useState(false)
    call,       \* the locals of each sendMessage call that passed its guard
    ncalls,     \* how many calls passed the guard so far
    served,     \* the units of service used so far (see MaxService)
    lastOp      \* the operation that led to this state

\* The state of the hosted database and of the History page (see the section
\* on row-level authorization below).
VARIABLES
    fitness_plans,  \* public.fitness_plans: rows [id, user_id]
    workout_logs,   \* public.workout_logs: rows [id, user_id, fitness_plan_id]
    objects,        \* storage.objects of the medical-records bucket: [folder, file]
    plans,          \* useState<FitnessPlan[]> of the History page, per signed-in user
    result,         \* the rows the last select of logs or objects returned
    stmt            \* the last statement: who issued it, what it was, on which table

\* The state of the other components, each described in its own section
\* below.  A function that reads no state of a component is studied on its
\* parameters and on what it returns or stores.
VARIABLES
    args,       \* the parameters of the function under study
    returned,   \* what it returned, or the state it set
    deleting,   \* History page: the deletePlan call made for each plan
    formData,   \* planner: useState of the form (the fields generatePlan reads)
    plan,       \* planner: useState<FitnessPlan | null>
    planLoading,\* planner: useState(false), `loading`
    edits,      \* planner: how many times the form was edited so far
    notified,   \* the titles of the toasts the last step raised
    called      \* the callback props the last step called, with their arguments

\* The state of MedicalRecordUpload in the planner, and of the Progress page
\* with its WorkoutLogger.
VARIABLES
    uploading,      \* MedicalRecordUpload: useState(false)
    uploadedFiles,  \* MedicalRecordUpload: useState<string[]>(existingRecords)
    medicalRecords, \* FitnessPlanner: useState<string[]>([])
    uploadCall,     \* the handleFileUpload call in progress, and the names given so far
    removeCall,     \* the removeFile call in progress
    logUser,        \* Progress: useState<User | null>, the `user` prop of the logger
    logData,        \* WorkoutLogger: useState of the form, `formData`
    logLoading,     \* WorkoutLogger: useState(false), `loading`
    refreshTrigger, \* Progress: useState(0)
    logCall         \* the handleSubmit call in progress, and the submits so far

chatVars == <<messages, input, loading, call, ncalls, served, lastOp>>
dbVars == <<fitness_plans, workout_logs, objects, plans, result, stmt>>
fnVars == <<args, returned>>
plannerVars == <<formData, plan, planLoading, edits>>
uploadVars == <<uploading, uploadedFiles, medicalRecords, uploadCall, removeCall>>
loggerVars == <<logUser, logData, logLoading, refreshTrigger, logCall>>
appVars == <<fnVars, deleting, plannerVars, uploadVars, loggerVars, notified, called>>
vars == <<chatVars, dbVars, appVars>>

Users == {"A", "B"}

\* the ids of plans and of logs, and the file names
Ids == {"i1", "i2"}

\* no row, no page opened, no statement issued
DbIdle ==
    /\ fitness_plans = {}
    /\ workout_logs = {}
    /\ objects = {}
    /\ plans = [u \in Users |-> {}]
    /\ result = {}
    /\ stmt = [actor |-> "none", kind |-> "none", table |-> "none"]

Calls == 1..MaxRequests

Greeting == <<"H", "i", "!">>

\* what the user can type: nothing, a blank, a question
Inputs == {<< >>, <<" ">>, <<"h", "i">>}

\* A call's record.  pc is where the call is suspended: "fetch" (line 43),
\* "read" (line 68), "end" (returned), "none" (never made).  events/pos are the
\* response body and how many of its bytes have been delivered; pend is the
\* state of the TextDecoder; reader tells whether the response had a body.  The fields
\* from base on are history: the list before the call, the texts applied to it,
\* the error notifications raised, the messages the catch block removed, and
\* the lines the last run of the inner loop examined.
NoCall ==
    [pc |-> "none", events |-> << >>, pos |-> 0, pend |-> << >>,
     reader |-> FALSE, textBuffer |-> << >>, assistantContent |-> << >>,
     streamDone |-> FALSE, userMessage |-> << >>,
     base |-> << >>, deltas |-> << >>, toasts |-> 0, removed |-> << >>,
     trace |-> << >>]

\* the bytes of a call's response body, and those delivered so far
Body(c) == Flatten(c.events)
Delivered(c) == SubSeq(Body(c), 1, c.pos)

\* the chat widget after construction
ChatInit ==
    /\ messages = <<[role |-> "assistant", content |-> Greeting]>>
    /\ input = << >>
    /\ loading = FALSE
    /\ call = [r \in Calls |-> NoCall]
    /\ ncalls = 0
    /\ served = 0
    /\ lastOp = "init"

\* A deletePlan call of the History page (History.tsx 76-97): pc is "none" (not made), "sent" (line 78, awaiting),
\* "resolved" (the server answered), "returned"; plans is the list the
\* closure of the call holds (the state of the render the handler is from);
\* error is what the server answered.
NoDelete == [pc |-> "none", plans |-> {}, error |-> FALSE]

\* no function is under study
FnIdle ==
    /\ args = [fn |-> "none"]
    /\ returned = [fn |-> "none"]

\* no deletePlan call has been made
HistoryIdle == deleting = [i \in Ids |-> NoDelete]

\* the value of `plan` before a plan is generated
NoPlan == [null |-> TRUE]

\* FitnessPlanner.tsx 63-87: the planner after construction.  name, age and
\* gender are left out: generatePlan and the toggles do not read them.
PlannerIdle ==
    /\ formData = [height |-> << >>, weight |-> << >>, activityLevel |-> "moderate",
                   goal |-> "maintain", dietPreferences |-> <<"veg">>,
                   equipment |-> << >>]
    /\ plan = NoPlan
    /\ planLoading = FALSE
    /\ edits = 0

\* handleFileUpload: pc is "none" (no call yet, or the last one returned),
\* "getUser" (awaiting auth.getUser) or "upload" (awaiting the upload of
\* files[k]); the other fields are those of the last call: the files of the
\* event, uploadedFiles the list the closure holds, uploadedUrls the local of
\* that name, user the user getUser gave; named counts the names generated.
NoUpload == [pc |-> "none", files |-> << >>, uploadedFiles |-> << >>,
             uploadedUrls |-> << >>, k |-> 0, user |-> "null", named |-> 0]

\* removeFile: pc is "none" or "remove" (awaiting storage remove)
NoRemove == [pc |-> "none", fileName |-> "none", uploadedFiles |-> << >>]

\* MedicalRecordUpload.tsx 14-15 and FitnessPlanner.tsx 87: no record yet
UploadIdle ==
    /\ uploading = FALSE
    /\ uploadedFiles = << >>
    /\ medicalRecords = << >>
    /\ uploadCall = NoUpload
    /\ removeCall = NoRemove

\* part_001 43-50: the form of the logger after construction or reset; the
\* date is today's
LogDefaults == [workoutDate |-> "today", exercisesCompleted |-> << >>,
                durationMinutes |-> << >>, caloriesBurned |-> << >>,
                mood |-> "good", notes |-> << >>]

\* handleSubmit: pc is "none" or "insert" (awaiting the insert)
NoSubmit == [pc |-> "none", submits |-> 0]

\* part_002 11-12 and part_001 42-50
LoggerIdle ==
    /\ logUser = "null"
    /\ logData = LogDefaults
    /\ logLoading = FALSE
    /\ refreshTrigger = 0
    /\ logCall = NoSubmit

\* the other components after construction
AppIdle ==
    /\ FnIdle
    /\ HistoryIdle
    /\ PlannerIdle
    /\ UploadIdle
    /\ LoggerIdle
    /\ notified = << >>
    /\ called = << >>

Init ==
    /\ ChatInit
    /\ DbIdle
    /\ AppIdle

(***************************************************************************)
(* Operations.                                                             *)
(***************************************************************************)
\* The record of a call that has returned is kept until the next event of the
\* user interface.
Forget == [c \in Calls |-> IF call[c].pc = "end" THEN NoCall ELSE call[c]]

\* line 169: onChange of the input box, which is disabled while loading (line 172)
SetInput(v) ==
    /\ ~loading
    /\ input' = v
    /\ call' = Forget
    /\ lastOp' = "setInput"
    /\ UNCHANGED <<messages, loading, ncalls, served>>

\* a guard that tests the input without trimming it
GuardNoTrim == input # << >> /\ ~loading

\* line 33
Guard == Trim(input) # << >> /\ ~loading

\* a send whose reply text starts from the reply of the request before
SendMessageKeepsReply ==
    IF ~Guard
    THEN /\ call' = Forget
         /\ lastOp' = "sendMessage:return"
         /\ UNCHANGED <<messages, input, loading, ncalls, served>>
    ELSE /\ ncalls < MaxRequests
         /\ LET r == ncalls + 1
                userMessage == [role |-> "user", content |-> input]
            IN  /\ messages' = Append(messages, userMessage)
                /\ call' = [c \in Calls |->
                              IF c = r
                              THEN [NoCall EXCEPT !.pc = "fetch", !.base = messages,
                                                  !.userMessage = input,
                                                  !.assistantContent =
                                                      IF Len(messages) > 1
                                                      THEN messages[Len(messages)].content
                                                      ELSE << >>]
                              ELSE Forget[c]]
                /\ ncalls' = r
         /\ input' = << >>
         /\ loading' = TRUE
         /\ lastOp' = "sendMessage"
         /\ UNCHANGED served

\* lines 32-43: sendMessage up to the await of fetch
SendMessage ==
    IF ~Guard
    THEN /\ call' = Forget
         /\ lastOp' = "sendMessage:return"
         /\ UNCHANGED <<messages, input, loading, ncalls, served>>
    ELSE /\ ncalls < MaxRequests
         /\ LET r == ncalls + 1
                userMessage == [role |-> "user", content |-> input]
            IN  /\ messages' = Append(messages, userMessage)
                /\ call' = [c \in Calls |->
                              IF c = r
                              THEN [NoCall EXCEPT !.pc = "fetch", !.base = messages,
                                                  !.userMessage = input]
                              ELSE Forget[c]]
                /\ ncalls' = r
         /\ input' = << >>
         /\ loading' = TRUE
         /\ lastOp' = "sendMessage"
         /\ UNCHANGED served

\* lines 109-116: the catch block, on the list as it is when the block runs.
\* The locals of the try block are out of scope in it; the history is kept.
Catch(c, prev) ==
    [NoCall EXCEPT !.userMessage = c.userMessage, !.base = c.base, !.deltas = c.deltas,
                   !.toasts = c.toasts + 1,
                   !.removed = IF prev = << >> THEN c.removed
                               ELSE Append(c.removed, prev[Len(prev)])]

\* a catch block that forgets the roll-back
KeepAll(prev) == prev

\* prev.slice(0, -1)
DropLast(prev) == SubSeq(prev, 1, Len(prev) - 1)

\* lines 43-54: fetch rejects, or resolves with a status that is not ok
FetchFails(r) ==
    /\ call[r].pc = "fetch"
    /\ served < MaxService
    /\ served' = served + 1
    /\ \E why \in {"fetch:reject", "fetch:500"} : lastOp' = why
    /\ call' = [call EXCEPT ![r] = [Catch(@, messages) EXCEPT !.pc = "end"]]
    /\ messages' = DropLast(messages)
    /\ loading' = FALSE
    /\ UNCHANGED <<input, ncalls>>

\* lines 56-60 and 117-119: a response that is ok and has no body
FetchNoBody(r) ==
    /\ call[r].pc = "fetch"
    /\ served < MaxService
    /\ served' = served + 1
    /\ call' = [call EXCEPT ![r].pc = "end"]
    /\ loading' = FALSE
    /\ lastOp' = "fetch:nobody"
    /\ UNCHANGED <<messages, input, ncalls>>

\* a response handled without appending the placeholder of line 65
FetchOkNoPlaceholder(r) ==
    /\ call[r].pc = "fetch"
    /\ served < MaxService
    /\ \E es \in EventSeqs(MaxService - served - 1) :
          /\ call' = [call EXCEPT ![r].pc = "read", ![r].reader = TRUE, ![r].events = es]
          /\ served' = served + 1 + Len(es)
    /\ lastOp' = "fetch:ok"
    /\ UNCHANGED <<messages, input, loading, ncalls>>

\* lines 56-68: a response that is ok; the placeholder is appended and the
\* first read is awaited
FetchOk(r) ==
    /\ call[r].pc = "fetch"
    /\ served < MaxService
    /\ \E es \in EventSeqs(MaxService - served - 1) :
          /\ call' = [call EXCEPT ![r].pc = "read", ![r].reader = TRUE, ![r].events = es]
          /\ served' = served + 1 + Len(es)
    /\ messages' = Append(messages, [role |-> "assistant", content |-> << >>])
    /\ lastOp' = "fetch:ok"
    /\ UNCHANGED <<input, loading, ncalls>>

\* an end of stream that takes what is left in the buffer for a last line
ReadDoneFlush(r) ==
    /\ call[r].pc = "read"
    /\ call[r].pos = Len(Body(call[r]))
    /\ \E st \in {ProcessLines([buf |-> call[r].textBuffer \o <<"\n">>,
                                content |-> call[r].assistantContent,
                                msgs |-> messages, done |-> FALSE, stop |-> FALSE,
                                trace |-> << >>])} :
          /\ call' = [call EXCEPT ![r].pc = "end", ![r].trace = << >>,
                                  ![r].assistantContent = st.content,
                                  ![r].deltas = @ \o Applied(st.trace)]
          /\ messages' = st.msgs
    /\ loading' = FALSE
    /\ lastOp' = "read:done"
    /\ UNCHANGED <<input, ncalls, served>>

\* lines 68-69 and 117-119: read resolves with done
ReadDone(r) ==
    /\ call[r].pc = "read"
    /\ call[r].pos = Len(Body(call[r]))
    /\ call' = [call EXCEPT ![r].pc = "end", ![r].trace = << >>]
    /\ loading' = FALSE
    /\ lastOp' = "read:done"
    /\ UNCHANGED <<messages, input, ncalls, served>>

\* a read failure handled without the finally block of lines 117-119
ReadFailsNoFinally(r) ==
    /\ call[r].pc = "read"
    /\ call' = [call EXCEPT ![r] = [Catch(@, messages) EXCEPT
                                       !.pc = "end", !.trace = << >>]]
    /\ messages' = DropLast(messages)
    /\ lastOp' = "read:reject"
    /\ UNCHANGED <<input, loading, ncalls, served>>

\* line 68 and 109-119: read rejects
ReadFails(r) ==
    /\ call[r].pc = "read"
    /\ call' = [call EXCEPT ![r] = [Catch(@, messages) EXCEPT
                                       !.pc = "end", !.trace = << >>]]
    /\ messages' = DropLast(messages)
    /\ loading' = FALSE
    /\ lastOp' = "read:reject"
    /\ UNCHANGED <<input, ncalls, served>>

\* the sizes of the next fragment when n bytes are still to come
FragSizes(n) == (1..Min(MaxFrag, n)) \cup {n}

\* lines 68-107 (and 117-119 when [DONE] was met): read resolves with a
\* fragment `value`, which is decoded, appended to textBuffer and processed;
\* st is the state the inner loop ends in
ReadChunk(r) ==
    /\ call[r].pc = "read"
    /\ call[r].pos < Len(Body(call[r]))
    /\ \E body \in {Body(call[r])} :
       \E k \in FragSizes(Len(body) - call[r].pos) :
       \E value \in {SubSeq(body, call[r].pos + 1, call[r].pos + k)} :
       \E dec \in {Utf8Decode(call[r].pend, value)} :
       \E st \in {ProcessLines([buf |-> call[r].textBuffer \o dec.text,
                                content |-> call[r].assistantContent,
                                msgs |-> messages, done |-> FALSE, stop |-> FALSE,
                                trace |-> << >>])} :
          /\ call' = [call EXCEPT ![r] =
                        [@ EXCEPT !.pos = @ + k,
                                  !.pend = dec.pend,
                                  !.textBuffer = st.buf,
                                  !.assistantContent = st.content,
                                  !.streamDone = st.done,
                                  !.pc = IF st.done THEN "end" ELSE "read",
                                  !.deltas = @ \o Applied(st.trace),
                                  !.trace = st.trace]]
          /\ messages' = st.msgs
          /\ loading' = IF st.done THEN FALSE ELSE loading
    /\ lastOp' = "read:chunk"
    /\ UNCHANGED <<input, ncalls, served>>

Next ==
    \/ \E v \in Inputs : SetInput(v) /\ UNCHANGED <<dbVars, appVars>>
    \/ SendMessage /\ UNCHANGED <<dbVars, appVars>>
    \/ \E r \in Calls : FetchFails(r) /\ UNCHANGED <<dbVars, appVars>>
    \/ \E r \in Calls : FetchNoBody(r) /\ UNCHANGED <<dbVars, appVars>>
    \/ \E r \in Calls : FetchOk(r) /\ UNCHANGED <<dbVars, appVars>>
    \/ \E r \in Calls : ReadChunk(r) /\ UNCHANGED <<dbVars, appVars>>
    \/ \E r \in Calls : ReadDone(r) /\ UNCHANGED <<dbVars, appVars>>
    \/ \E r \in Calls : ReadFails(r) /\ UNCHANGED <<dbVars, appVars>>

Spec == Init /\ [][Next]_vars

\* the transport of call r settles: fetch resolves or rejects, or the body
\* closes or fails (a read resolves with done, or rejects)
Settles(r) ==
    /\ \/ FetchFails(r) \/ FetchNoBody(r) \/ FetchOk(r)
       \/ ReadDone(r) \/ ReadFails(r)
    /\ UNCHANGED <<dbVars, appVars>>

\* The transport that does not hang: a fetch that can settle does settle, and
\* a body that is being read is closed or fails at some time, after any
\* number of fragments; the continuation of the await then runs.  A fetch
\* issued when the service has nothing left to give (served = MaxService)
\* never settles.
FairSpec == Spec /\ \A r \in Calls : WF_vars(Settles(r))

(***************************************************************************)
(* Vocabulary of the properties.                                           *)
(***************************************************************************)
\* the state the inner loop starts from when the buffer holds `text`
Fresh(text, msgs) ==
    [buf |-> text, content |-> << >>, msgs |-> msgs, done |-> FALSE, stop |-> FALSE,
     trace |-> << >>]

\* the delta texts applied when `bytes` arrive as one single fragment
OneShot(bytes) == Applied(ProcessLines(Fresh(Utf8Decode(<< >>, bytes).text, << >>)).trace)

\* the complete lines of a text, without their newlines
RECURSIVE CompleteLines(_)
CompleteLines(text) ==
    IF IndexOf(text, "\n") = 0 THEN << >>
    ELSE <<SubSeq(text, 1, IndexOf(text, "\n") - 1)>>
            \o CompleteLines(SubSeq(text, IndexOf(text, "\n") + 1, Len(text)))

\* a `data: ` line whose payload is neither [DONE] nor a record that parses
Failing(rawLine) ==
    /\ ~Ignored(StripCR(rawLine))
    /\ Payload(StripCR(rawLine)) # DoneSentinel
    /\ DeltaContent(Payload(StripCR(rawLine))).threw

\* a well-formed event stream: no complete line of it is a failing line
WellFormed(bytes) ==
    LET ls == CompleteLines(Utf8Decode(<< >>, bytes).text)
    IN  \A i \in 1..Len(ls) : ~Failing(ls[i])

RECURSIVE Concat(_)
Concat(ts) == IF ts = << >> THEN << >> ELSE Head(ts) \o Concat(Tail(ts))

\* the calls whose response had a body and that have not failed
Streaming(r) == call[r].reader /\ call[r].pc \in {"read", "end"}

(***************************************************************************)
(* C1.  However a well-formed event stream is cut into fragments (in the   *)
(* middle of a line, or of a character), the delta texts the read loop has *)
(* applied after any number of fragments are those applied when the bytes  *)
(* delivered so far arrive as one single fragment.                         *)
(***************************************************************************)
C1_SplitInvariant ==
    \A r \in Calls :
        (Streaming(r) /\ WellFormed(Delivered(call[r])))
            => call[r].deltas = OneShot(Delivered(call[r]))

\* a delta has been applied and the last fragment ended in the middle of the
\* next line, between the two bytes of a character
C1_Witness ==
    \E r \in Calls :
        /\ call[r].pc = "read"
        /\ WellFormed(Delivered(call[r]))
        /\ call[r].deltas = <<<<"a">>>>
        /\ call[r].pend = <<LeadByte>>
        /\ call[r].textBuffer # << >>

(***************************************************************************)
(* C2.  From the moment the placeholder is added, and at completion, the   *)
(* content of the last message is the concatenation, in arrival order, of  *)
(* the delta texts applied so far in the request.                          *)
(***************************************************************************)
C2_ContentIsConcat ==
    \A r \in Calls :
        Streaming(r) =>
            /\ messages # << >>
            /\ messages[Len(messages)].role = "assistant"
            /\ messages[Len(messages)].content = Concat(call[r].deltas)

C2_Witness ==
    \E r \in Calls :
        /\ call[r].pc = "end" /\ call[r].reader
        /\ call[r].deltas = <<<<Eacute>>, <<"a">>>>
        /\ messages[Len(messages)].content = <<Eacute, "a">>

(***************************************************************************)
(* C3.  A line `data: [DONE]` anywhere in the stream ends decoding: once   *)
(* it has been delivered no read is outstanding, and nothing was applied   *)
(* beyond what the bytes up to and including that line apply.              *)
(***************************************************************************)
IsDone(rawLine) == ~Ignored(StripCR(rawLine)) /\ Payload(StripCR(rawLine)) = DoneSentinel

Text(c) == Utf8Decode(<< >>, Delivered(c)).text

DoneDelivered(c) == \E i \in 1..Len(CompleteLines(Text(c))) : IsDone(CompleteLines(Text(c))[i])

\* the bytes of the body up to and including the first [DONE] line
UpToDone(c) ==
    LET ends == {n \in 1..Len(Body(c)) :
                    /\ Body(c)[n] = "\n"
                    /\ \E i \in 1..Len(CompleteLines(Utf8Decode(<< >>, SubSeq(Body(c), 1, n)).text)) :
                          IsDone(CompleteLines(Utf8Decode(<< >>, SubSeq(Body(c), 1, n)).text)[i])}
    IN  SubSeq(Body(c), 1, CHOOSE n \in ends : \A m \in ends : n <= m)

C3_DoneTerminates ==
    \A r \in Calls :
        (Streaming(r) /\ DoneDelivered(call[r])) =>
            /\ call[r].pc = "end"
            /\ call[r].streamDone
            /\ call[r].deltas = OneShot(UpToDone(call[r]))

(***************************************************************************)
(* C4.  On a response that is not ok no delta is applied, one error        *)
(* notification is raised, no request is issued again, and the message the *)
(* error handler removes is the assistant's: the user's message stays.     *)
(***************************************************************************)
InFlight == {r \in Calls : call[r].pc \in {"fetch", "read"}}

C4_NotOkKeepsUserMessage ==
    \A r \in Calls :
        (lastOp = "fetch:500" /\ call[r].pc = "end") =>
            /\ call[r].deltas = << >>
            /\ call[r].toasts = 1
            /\ InFlight = {}
            /\ Len(call[r].removed) = 1
            /\ call[r].removed[1].role = "assistant"
            /\ messages = Append(call[r].base, [role |-> "user", content |-> call[r].userMessage])

(***************************************************************************)
(* C5.  When a read rejects after the placeholder was appended, whatever   *)
(* had been applied, the message removed is the assistant's message in     *)
(* progress: the list is the list before the send followed by the user's   *)
(* message, and one error notification is raised.                          *)
(***************************************************************************)
C5_ReadFailureRollsBack ==
    \A r \in Calls :
        (lastOp = "read:reject" /\ call[r].pc = "end") =>
            /\ messages = Append(call[r].base, [role |-> "user", content |-> call[r].userMessage])
            /\ call[r].removed =
                   <<[role |-> "assistant", content |-> Concat(call[r].deltas)]>>
            /\ call[r].toasts = 1
            /\ ~loading

\* a second request fails after a delta was applied
C5_Witness ==
    \E r \in Calls :
        /\ lastOp = "read:reject"
        /\ call[r].pc = "end"
        /\ call[r].deltas # << >>
        /\ Len(call[r].base) > 1

(***************************************************************************)
(* Steps of the read loop, for the properties of one fragment.             *)
(***************************************************************************)
\* the step is a fragment read by call r
ChunkStep(r) == call[r].pc = "read" /\ call'[r].pos > call[r].pos

\* textBuffer after line 71 of that step
Work(r) ==
    call[r].textBuffer
        \o Utf8Decode(call[r].pend, SubSeq(Body(call[r]), call[r].pos + 1, call'[r].pos)).text

\* the number of characters the first n lines take, newlines included
RECURSIVE Offset(_, _)
Offset(ls, n) == IF n = 0 THEN 0 ELSE Offset(ls, n - 1) + Len(ls[n]) + 1

\* the last line the loop examined was pushed back
PushedBack(trace) == trace # << >> /\ trace[Len(trace)].act = "pushback"

\* the raw lines the loop examined
Raws(trace) == [i \in 1..Len(trace) |-> trace[i].raw]

(***************************************************************************)
(* C6 as stated.  When the payload of a `data: ` line fails to parse, no   *)
(* event is emitted, no byte is dropped (the buffer is left holding        *)
(* everything from the start of that line on), and no further line is      *)
(* examined in that fragment.                                              *)
(***************************************************************************)
C6_NoBytesDropped ==
    [][\A r \in Calls :
          (ChunkStep(r) /\ PushedBack(call'[r].trace)) =>
              LET tr == call'[r].trace
                  n == Len(tr)
                  w == Work(r)
              IN  /\ \A i \in 1..n : tr[i].act = "pushback" => i = n
                  /\ Raws(tr) = SubSeq(CompleteLines(w), 1, n)
                  /\ call'[r].assistantContent =
                         call[r].assistantContent \o Concat([i \in 1..(n - 1) |-> tr[i].text])
                  /\ call'[r].textBuffer = SubSeq(w, Offset(Raws(tr), n - 1) + 1, Len(w))]_vars

(***************************************************************************)
(* C6 amended.  When the payload of a `data: ` line fails to parse, no     *)
(* event is emitted, nothing is dropped but a `\r` that ended the line     *)
(* (the buffer becomes the line without that `\r`, a newline, and the rest *)
(* of the buffer), and no further line is examined in that fragment.       *)
(***************************************************************************)
C6_PushBackKeepsAllButCR ==
    [][\A r \in Calls :
          (ChunkStep(r) /\ PushedBack(call'[r].trace)) =>
              LET tr == call'[r].trace
                  n == Len(tr)
                  w == Work(r)
              IN  /\ \A i \in 1..n : tr[i].act = "pushback" => i = n
                  /\ Raws(tr) = SubSeq(CompleteLines(w), 1, n)
                  /\ call'[r].assistantContent =
                         call[r].assistantContent \o Concat([i \in 1..(n - 1) |-> tr[i].text])
                  /\ call'[r].textBuffer =
                         StripCR(tr[n].raw) \o <<"\n">>
                             \o SubSeq(w, Offset(Raws(tr), n) + 1, Len(w))]_vars

\* a line that ended in `\r` was pushed back, and a complete line that came
\* in the same fragment is left in the buffer, not examined
C6_Witness ==
    \E r \in Calls :
        /\ call[r].pc = "read"
        /\ PushedBack(call[r].trace)
        /\ EndsWith(call[r].trace[Len(call[r].trace)].raw, <<"\r">>)
        /\ Len(CompleteLines(call[r].textBuffer)) = 2

(***************************************************************************)
(* C7.  After a `data: ` line failed to parse and was pushed back, a later *)
(* fragment that brings a valid completion of the line makes the line      *)
(* parse, and the delta of the completed line is applied.                  *)
(***************************************************************************)
\* a line whose payload parses and carries a text
ValidDelta(line) ==
    /\ ~Ignored(line)
    /\ Payload(line) # DoneSentinel
    /\ ~DeltaContent(Payload(line)).threw
    /\ Truthy(DeltaContent(Payload(line)).content)

C7_CompletionParses ==
    [][\A r \in Calls :
          LET ls == CompleteLines(Work(r))
          IN  (/\ ChunkStep(r)
               /\ PushedBack(call[r].trace)
               /\ Len(CompleteLines(call[r].textBuffer)) = 1
               /\ Len(ls) >= 2
               /\ ValidDelta(ls[1] \o ls[2]))
                  => /\ Applied(call'[r].trace) # << >>
                     /\ Applied(call'[r].trace)[1] =
                            JsString(DeltaContent(Payload(ls[1] \o ls[2])).content)]_vars

(***************************************************************************)
(* C8.  A complete line that starts with `:`, is blank after trimming (a   *)
(* lone `\r` included) or does not start with `data: ` produces no event   *)
(* and is never pushed back; when the loop reaches it, it is removed from  *)
(* the buffer; and the fragment decodes exactly as if the line had not     *)
(* been there.                                                             *)
(***************************************************************************)
Ignorable(rawLine) ==
    \/ StartsWith(StripCR(rawLine), <<":">>)
    \/ Trim(StripCR(rawLine)) = << >>
    \/ ~StartsWith(StripCR(rawLine), DataPrefix)

\* the text w, whose complete lines are ls, without its i-th line
Without(w, ls, i) ==
    SubSeq(w, 1, Offset(ls, i - 1)) \o SubSeq(w, Offset(ls, i) + 1, Len(w))

\* a sequence without its i-th element
DropAt(seq, i) == SubSeq(seq, 1, i - 1) \o SubSeq(seq, i + 1, Len(seq))

C9_ParseFailureContained ==
    [][\A r \in Calls :
          (ChunkStep(r) /\ PushedBack(call'[r].trace)) =>
              /\ call'[r].toasts = call[r].toasts
              /\ call'[r].removed = call[r].removed
              /\ Len(messages') = Len(messages)
              /\ \A i \in 1..(Len(messages) - 1) : messages'[i] = messages[i]
              /\ messages'[Len(messages)].content = call'[r].assistantContent
              /\ call'[r].pc = "read"
              /\ ~call'[r].streamDone
              /\ loading /\ loading']_vars

\* a delta was applied, then a line failed to parse; the request still reads
C9_Witness ==
    \E r \in Calls :
        /\ call[r].pc = "read"
        /\ loading
        /\ PushedBack(call[r].trace)
        /\ call[r].deltas # << >>
        /\ call[r].toasts = 0
        /\ Len(messages) = Len(call[r].base) + 2

(***************************************************************************)
(* C10.  At most one request is in flight at any time; a sendMessage call  *)
(* made while loading is true, or with blank input, appends no message,    *)
(* issues no fetch and changes no state.                                   *)
(***************************************************************************)
C10_SingleFlight ==
    /\ [](Cardinality(InFlight) <= 1)
    /\ [][(/\ lastOp' \in {"sendMessage", "sendMessage:return"}
           /\ (loading \/ Trim(input) = << >>))
             => /\ lastOp' = "sendMessage:return"
                /\ messages' = messages
                /\ input' = input
                /\ loading' = loading
                /\ ncalls' = ncalls
                /\ served' = served
                /\ \A r \in InFlight : call'[r] = call[r]
                /\ InFlight' = InFlight]_vars

\* sendMessage was called while a request was in flight and returned at once
C10_Witness ==
    /\ lastOp = "sendMessage:return"
    /\ loading
    /\ Cardinality(InFlight) = 1

(***************************************************************************)
(* C11.  A sendMessage call that passes its guard sets loading; when the   *)
(* transport goes on delivering, closes or fails, loading is eventually    *)
(* false again on every path; and nothing but a step of the transport      *)
(* clears loading, so with a transport that never settles it stays true.   *)
(***************************************************************************)
TransportOps ==
    {"fetch:reject", "fetch:500", "fetch:nobody", "read:chunk", "read:done", "read:reject"}

\* the transport of call r can still settle
Live(r) == call[r].pc = "read" \/ (call[r].pc = "fetch" /\ served < MaxService)

C11_LoadingEventuallyCleared ==
    /\ [][lastOp' = "sendMessage" => (loading' /\ input' = << >>)]_vars
    /\ \A r \in Calls : (Live(r) /\ loading) ~> ~loading
    /\ [][(loading /\ ~loading') => lastOp' \in TransportOps]_vars
    /\ [](InFlight # {} => loading)

\* a request ended by [DONE] after a delta, with loading false again
C11_Witness ==
    \E r \in Calls :
        /\ call[r].pc = "end"
        /\ call[r].streamDone
        /\ call[r].deltas # << >>
        /\ ~loading

(***************************************************************************)
(* C12.  While a reply is streaming only the last message is modified:     *)
(* every earlier message and the length of the list are unchanged, and     *)
(* each update replaces the content of the last message by a string that   *)
(* has the previous content as a proper prefix.                            *)
(***************************************************************************)
\* the texts of the updates (lines 93-100) a run of the loop made, in order
Updates(trace) ==
    LET upd == SelectSeq(trace, LAMBDA t : t.act = "delta")
    IN  [i \in 1..Len(upd) |-> upd[i].text]

C12_LastMessageGrows ==
    [][\A r \in Calls :
          ChunkStep(r) =>
              /\ Len(messages') = Len(messages)
              /\ \A i \in 1..(Len(messages) - 1) : messages'[i] = messages[i]
              /\ messages'[Len(messages)].role = messages[Len(messages)].role
              /\ messages'[Len(messages)].content =
                     messages[Len(messages)].content \o Concat(Updates(call'[r].trace))
              /\ \A j \in 1..Len(Updates(call'[r].trace)) :
                     Updates(call'[r].trace)[j] # << >>]_vars

(***************************************************************************)
(* C13.  A `data: ` line whose payload parses as a record but carries no   *)
(* text (choices, delta or content is missing or null, or content is the   *)
(* empty string) applies nothing, leaves the message list as it is, is not *)
(* pushed back, and the loop goes on with the next line of the fragment.   *)
(***************************************************************************)
\* the value at choices[0].delta.content of a parsed record, if any
ContentOf(val) ==
    LET choices == Prop(val, KeyChoices)
        first == IF choices.t = "array" THEN choices.v ELSE Undefined
        delta == Prop(first, KeyDelta)
    IN  Prop(delta, KeyContent)

NoText(rawLine) ==
    /\ StartsWith(StripCR(rawLine), DataPrefix)
    /\ JSONParse(Payload(StripCR(rawLine))).ok
    /\ JSONParse(Payload(StripCR(rawLine))).val.t \in {"object", "object0"}
    /\ \/ Nullish(ContentOf(JSONParse(Payload(StripCR(rawLine))).val))
       \/ ContentOf(JSONParse(Payload(StripCR(rawLine))).val) = [t |-> "string", s |-> << >>]

C13_RecordWithoutTextIsSkipped ==
    [][\A r \in Calls :
          ChunkStep(r) =>
              \A w \in {Work(r)} :
              \A ls \in {CompleteLines(w)} :
              \A i \in {j \in 1..Len(call'[r].trace) : NoText(ls[j])} :
              \A st \in {ProcessLines([Fresh(Without(w, ls, i), messages)
                                          EXCEPT !.content = call[r].assistantContent])} :
                  /\ call'[r].trace[i] = [raw |-> ls[i], act |-> "nodelta", text |-> << >>]
                  /\ i < Len(ls) => Len(call'[r].trace) > i
                  /\ st.msgs = messages'
                  /\ st.content = call'[r].assistantContent
                  /\ st.buf = call'[r].textBuffer
                  /\ st.trace = DropAt(call'[r].trace, i)]_vars

\* a record with an empty text, then a record with no choices, were passed
\* over and the loop has gone on
C13_Witness ==
    \E r \in Calls :
        /\ Len(call[r].trace) = 2
        /\ call[r].trace[1].act = "nodelta"
        /\ ContentOf(JSONParse(Payload(call[r].trace[1].raw)).val) = [t |-> "string", s |-> << >>]
        /\ call[r].trace[2].act = "nodelta"
        /\ JSONParse(Payload(call[r].trace[2].raw)).val = [t |-> "object0"]
        /\ call[r].textBuffer = << >>

(***************************************************************************)
(* C14.  Every delta is applied to an assistant message appended during    *)
(* the current request: while and after the reply streams, the list is the *)
(* list before the send, the user's message, and one assistant message, so *)
(* no update overwrites the user's message or an earlier message.          *)
(***************************************************************************)
C14_DeltasGoToOwnPlaceholder ==
    \A r \in Calls :
        Streaming(r) =>
            /\ Len(messages) = Len(call[r].base) + 2
            /\ SubSeq(messages, 1, Len(messages) - 1) =
                   Append(call[r].base, [role |-> "user", content |-> call[r].userMessage])
            /\ messages[Len(messages)].role = "assistant"
            /\ call[r].assistantContent = messages[Len(messages)].content

\* a delta was applied in a request that follows an earlier exchange
C14_Witness ==
    \E r \in Calls :
        /\ call[r].pc = "read"
        /\ call[r].deltas # << >>
        /\ Len(call[r].base) > 1
        /\ call[r].base[Len(call[r].base)].role = "user"

(***************************************************************************)
(* Row-level authorization.  The tables fitness_plans and workout_logs and *)
(* the objects of the medical-records bucket, the policies the migrations  *)
(* create on them, and the statements a client can issue: those of the     *)
(* pages (History, ProgressTracker, MedicalRecordUpload, FitnessPlanner)    *)
(* and any other the API accepts, with any values, signed in or not.       *)
(***************************************************************************)
\* the rows the service stores at most, over the three relations
MaxRows == 2

\* SQL null
Null == "null"

\* a client without a session
Anon == "anon"

Actors == Users \cup {Anon}

\* auth.uid()
AuthUid(a) == IF a = Anon THEN Null ELSE a

\* SQL `=`: a comparison with null is not true
SqlEq(x, y) == x # Null /\ y # Null /\ x = y

\* a policy that lets every row through
UsingTrue(a, row) == TRUE

\* fitness_plans policies
PlansSelectUsing(a, row) == SqlEq(AuthUid(a), row.user_id)
PlansInsertCheck(a, row) == SqlEq(AuthUid(a), row.user_id)
PlansUpdateUsing(a, row) == SqlEq(AuthUid(a), row.user_id)
PlansDeleteUsing(a, row) == SqlEq(AuthUid(a), row.user_id)

\* workout_logs policies
LogsSelectUsing(a, row) == SqlEq(AuthUid(a), row.user_id)
LogsInsertCheck(a, row) == SqlEq(AuthUid(a), row.user_id)
LogsUpdateUsing(a, row) == SqlEq(AuthUid(a), row.user_id)
LogsDeleteUsing(a, row) == SqlEq(AuthUid(a), row.user_id)

\* storage.objects policies: the first folder of the name is the user's id
ObjectsSelectUsing(a, obj) == SqlEq(AuthUid(a), obj.folder)
ObjectsInsertCheck(a, obj) == SqlEq(AuthUid(a), obj.folder)
ObjectsUpdateUsing(a, obj) == SqlEq(AuthUid(a), obj.folder)
ObjectsDeleteUsing(a, obj) == SqlEq(AuthUid(a), obj.folder)

PlanRows == [id : Ids, user_id : Users]
LogRows == [id : Ids, user_id : Users, fitness_plan_id : Ids \cup {Null}]
ObjectRows == [folder : Users, file : Ids]

Stored == Cardinality(fitness_plans) + Cardinality(workout_logs) + Cardinality(objects)

Statement(a, kind, table) == [actor |-> a, kind |-> kind, table |-> table]

\* ON DELETE SET NULL of workout_logs.fitness_plan_id
SetNull(logs, ids) ==
    {IF l.fitness_plan_id \in ids THEN [l EXCEPT !.fitness_plan_id = Null] ELSE l : l \in logs}

\* History.tsx 54-74, fetchPlans: a select with no filter of its own
FetchPlans(a) ==
    /\ plans' = [plans EXCEPT ![a] = {row \in fitness_plans : PlansSelectUsing(a, row)}]
    /\ stmt' = Statement(a, "select", "fitness_plans")
    /\ result' = {}
    /\ UNCHANGED <<fitness_plans, workout_logs, objects>>

\* a select on a table by any client (ProgressTracker.tsx 62-65 for the logs)
Select(a, table) ==
    /\ result' = CASE table = "fitness_plans" ->
                          {row \in fitness_plans : PlansSelectUsing(a, row)}
                   [] table = "workout_logs" ->
                          {row \in workout_logs : LogsSelectUsing(a, row)}
                   [] table = "objects" ->
                          {obj \in objects : ObjectsSelectUsing(a, obj)}
    /\ stmt' = Statement(a, "select", table)
    /\ UNCHANGED <<fitness_plans, workout_logs, objects, plans>>

\* FitnessPlanner.tsx 328: an insert, here with any user_id; the statement
\* fails on a row the policy rejects or on an id in use
InsertPlan(a, row) ==
    /\ Stored < MaxRows
    /\ fitness_plans' =
           IF PlansInsertCheck(a, row) /\ \A p \in fitness_plans : p.id # row.id
           THEN fitness_plans \cup {row} ELSE fitness_plans
    /\ stmt' = Statement(a, "insert", "fitness_plans")
    /\ result' = {}
    /\ UNCHANGED <<workout_logs, objects, plans>>

\* an update that gives the row to `owner`: the rows it reaches are those
\* USING lets through, and the new row must pass USING as well (an update
\* policy without WITH CHECK), or the statement fails
UpdatePlan(a, id, owner) ==
    /\ \E old \in {{p \in fitness_plans : p.id = id /\ PlansUpdateUsing(a, p)}} :
       \E new \in {{[p EXCEPT !.user_id = owner] : p \in old}} :
          fitness_plans' =
              IF \A p \in new : PlansUpdateUsing(a, p)
              THEN (fitness_plans \ old) \cup new ELSE fitness_plans
    /\ stmt' = Statement(a, "update", "fitness_plans")
    /\ result' = {}
    /\ UNCHANGED <<workout_logs, objects, plans>>

\* History.tsx 76-97, deletePlan: delete ... where id = `id`.  No row deleted
\* is no error, so the page drops the plan from its list all the same.
DeletePlan(a, id) ==
    /\ \E gone \in {{p \in fitness_plans : p.id = id /\ PlansDeleteUsing(a, p)}} :
          /\ fitness_plans' = fitness_plans \ gone
          /\ workout_logs' = SetNull(workout_logs, {p.id : p \in gone})
    /\ plans' = IF a \in Users
                THEN [plans EXCEPT ![a] = {p \in @ : p.id # id}] ELSE plans
    /\ stmt' = Statement(a, "delete", "fitness_plans")
    /\ result' = {}
    /\ UNCHANGED objects

\* the insert of a workout log (WorkoutLogger), here with any user_id and any
\* plan; the foreign key is checked whoever owns the plan
InsertLog(a, row) ==
    /\ Stored < MaxRows
    /\ workout_logs' =
           IF /\ LogsInsertCheck(a, row)
              /\ \A l \in workout_logs : l.id # row.id
              /\ row.fitness_plan_id # Null =>
                     \E p \in fitness_plans : p.id = row.fitness_plan_id
           THEN workout_logs \cup {row} ELSE workout_logs
    /\ stmt' = Statement(a, "insert", "workout_logs")
    /\ result' = {}
    /\ UNCHANGED <<fitness_plans, objects, plans>>

UpdateLog(a, id, owner) ==
    /\ \E old \in {{l \in workout_logs : l.id = id /\ LogsUpdateUsing(a, l)}} :
       \E new \in {{[l EXCEPT !.user_id = owner] : l \in old}} :
          workout_logs' =
              IF \A l \in new : LogsUpdateUsing(a, l)
              THEN (workout_logs \ old) \cup new ELSE workout_logs
    /\ stmt' = Statement(a, "update", "workout_logs")
    /\ result' = {}
    /\ UNCHANGED <<fitness_plans, objects, plans>>

\* ProgressTracker.tsx 123-128, deleteLog
DeleteLog(a, id) ==
    /\ workout_logs' = {l \in workout_logs : ~(l.id = id /\ LogsDeleteUsing(a, l))}
    /\ stmt' = Statement(a, "delete", "workout_logs")
    /\ result' = {}
    /\ UNCHANGED <<fitness_plans, objects, plans>>

\* MedicalRecordUpload.tsx 59-65: upload, here to any folder
Upload(a, obj) ==
    /\ Stored < MaxRows
    /\ objects' = IF ObjectsInsertCheck(a, obj) /\ obj \notin objects
                  THEN objects \cup {obj} ELSE objects
    /\ stmt' = Statement(a, "insert", "objects")
    /\ result' = {}
    /\ UNCHANGED <<fitness_plans, workout_logs, plans>>

\* a move of an object to another folder
MoveObject(a, obj, folder) ==
    /\ objects' =
           IF /\ obj \in objects
              /\ ObjectsUpdateUsing(a, obj)
              /\ ObjectsUpdateUsing(a, [obj EXCEPT !.folder = folder])
              /\ [obj EXCEPT !.folder = folder] \notin objects
           THEN (objects \ {obj}) \cup {[obj EXCEPT !.folder = folder]} ELSE objects
    /\ stmt' = Statement(a, "update", "objects")
    /\ result' = {}
    /\ UNCHANGED <<fitness_plans, workout_logs, plans>>

\* MedicalRecordUpload.tsx 95-99, removeFile
RemoveObject(a, obj) ==
    /\ objects' = IF ObjectsDeleteUsing(a, obj) THEN objects \ {obj} ELSE objects
    /\ stmt' = Statement(a, "delete", "objects")
    /\ result' = {}
    /\ UNCHANGED <<fitness_plans, workout_logs, plans>>

RlsNext ==
    \/ \E a \in Users : FetchPlans(a) /\ UNCHANGED <<chatVars, appVars>>
    \/ \E a \in Actors, t \in {"fitness_plans", "workout_logs", "objects"} :
          Select(a, t) /\ UNCHANGED <<chatVars, appVars>>
    \/ \E a \in Actors, row \in PlanRows : InsertPlan(a, row) /\ UNCHANGED <<chatVars, appVars>>
    \/ \E a \in Actors, id \in Ids, o \in Users : UpdatePlan(a, id, o) /\ UNCHANGED <<chatVars, appVars>>
    \/ \E a \in Actors, id \in Ids : DeletePlan(a, id) /\ UNCHANGED <<chatVars, appVars>>
    \/ \E a \in Actors, row \in LogRows : InsertLog(a, row) /\ UNCHANGED <<chatVars, appVars>>
    \/ \E a \in Actors, id \in Ids, o \in Users : UpdateLog(a, id, o) /\ UNCHANGED <<chatVars, appVars>>
    \/ \E a \in Actors, id \in Ids : DeleteLog(a, id) /\ UNCHANGED <<chatVars, appVars>>
    \/ \E a \in Actors, obj \in ObjectRows : Upload(a, obj) /\ UNCHANGED <<chatVars, appVars>>
    \/ \E a \in Actors, obj \in ObjectRows, f \in Users :
          MoveObject(a, obj, f) /\ UNCHANGED <<chatVars, appVars>>
    \/ \E a \in Actors, obj \in ObjectRows : RemoveObject(a, obj) /\ UNCHANGED <<chatVars, appVars>>

RlsSpec == Init /\ [][RlsNext]_vars

(***************************************************************************)
(* C15.  Row-level authorization isolates the users: on fitness_plans,     *)
(* workout_logs and the medical-records bucket a select returns, and an    *)
(* insert, update or delete changes, only rows or objects owned by the     *)
(* user who issues it; so what History.fetchPlans displays and what        *)
(* History.deletePlan removes for a user is the same for any two tables    *)
(* that hold the same rows of that user.                                   *)
(***************************************************************************)
Owned(u, rows) == {row \in rows : row.user_id = u}

OwnedObjects(u, objs) == {obj \in objs : obj.folder = u}

\* a log without the plan it refers to
LogKey(l) == [id |-> l.id, user_id |-> l.user_id]

C16_FailedLineStallsDecoding ==
    [][\A r \in Calls :
          (ChunkStep(r) /\ PushedBack(call[r].trace)) =>
              /\ call'[r].trace =
                     <<[raw |-> StripCR(call[r].trace[Len(call[r].trace)].raw),
                        act |-> "pushback", text |-> << >>]>>
              /\ call'[r].deltas = call[r].deltas
              /\ messages' = messages
              /\ ~call'[r].streamDone
              /\ call'[r].pc = "read"
              /\ loading'
              /\ call'[r].textBuffer =
                     call[r].textBuffer
                         \o Utf8Decode(call[r].pend,
                                       SubSeq(Body(call[r]), call[r].pos + 1, call'[r].pos)).text]_vars

\* the whole body was read, the failed line has been tried again, and a
\* complete `data: [DONE]` line sits behind it in the buffer, not examined
C16_Witness ==
    \E r \in Calls :
        /\ call[r].pc = "read"
        /\ PushedBack(call[r].trace)
        /\ ~EndsWith(call[r].trace[1].raw, <<"\r">>)
        /\ call[r].pos = Len(Body(call[r]))
        /\ \E i \in 1..Len(CompleteLines(call[r].textBuffer)) :
               IsDone(CompleteLines(call[r].textBuffer)[i])

(***************************************************************************)
(* C17.  Line extraction terminates for every fragment: each iteration of  *)
(* the inner loop removes one complete line from the buffer or exits, and  *)
(* a line that fails to parse is tried at most once per fragment.          *)
(***************************************************************************)
\* the loop is over: a break was taken or no complete line is left
Final(st) == st.stop \/ IndexOf(st.buf, "\n") = 0

\* the state after n iterations of the loop, or the final state if it is
\* reached before
RECURSIVE Iterate(_, _)
Iterate(st, n) ==
    IF n = 0 \/ Final(st) THEN st ELSE Iterate(LoopBody(st), n - 1)

NewLines(buf) == Cardinality({i \in 1..Len(buf) : buf[i] = "\n"})

\* the loop started on `st` ends within as many iterations as the buffer has
\* complete lines; every iteration takes the first line off the buffer or
\* exits; the lines examined are the first lines of the buffer, each once
Terminates(st) ==
    \A n \in {NewLines(st.buf)} :
    \A end \in {Iterate(st, n)} :
        /\ Final(end)
        /\ Len(end.trace) <= n
        /\ Raws(end.trace) = SubSeq(CompleteLines(st.buf), 1, Len(end.trace))
        /\ \A j \in 1..Len(end.trace) :
               \A before \in {Iterate(st, j - 1)} :
               \A after \in {LoopBody(before)} :
                   /\ ~Final(before)
                   /\ Len(after.trace) = j
                   /\ after.stop \/
                          after.buf = SubSeq(before.buf, IndexOf(before.buf, "\n") + 1,
                                             Len(before.buf))
                   /\ after.trace[j].act = "pushback" => (after.stop /\ j = Len(end.trace))

C17_LineExtractionTerminates ==
    /\ [](\A r \in Calls :
             call[r].pc = "read" =>
                 Terminates(Fresh(call[r].textBuffer
                                      \o Utf8Decode(call[r].pend,
                                                    SubSeq(Body(call[r]), call[r].pos + 1,
                                                           Len(Body(call[r])))).text,
                                  messages)))
    /\ [][\A r \in Calls :
             ChunkStep(r) =>
                 \A st \in {[Fresh(Work(r), messages)
                                EXCEPT !.content = call[r].assistantContent]} :
                     /\ Terminates(st)
                     /\ call'[r].trace = Iterate(st, NewLines(st.buf)).trace
                     /\ call'[r].textBuffer = Iterate(st, NewLines(st.buf)).buf]_vars

\* a fragment completed two lines, the second of which failed: the loop
\* examined both, pushed the second back and left
C17_Witness ==
    \E r \in Calls :
        /\ call[r].pc = "read"
        /\ Len(call[r].trace) = 2
        /\ call[r].trace[1].act = "skip"
        /\ call[r].trace[2].act = "pushback"
        /\ NewLines(call[r].textBuffer) = 1

(***************************************************************************)
(* C18.  After each fragment has been processed and the stream has not     *)
(* ended, the pending buffer either contains no newline (it is exactly the *)
(* trailing partial line) or begins with a complete line whose payload     *)
(* failed to parse.                                                        *)
(***************************************************************************)
\* what follows the last newline of a text
RECURSIVE TrailingPartial(_)
TrailingPartial(text) ==
    IF IndexOf(text, "\n") = 0 THEN text
    ELSE TrailingPartial(SubSeq(text, IndexOf(text, "\n") + 1, Len(text)))

\* the first complete line of a text that has one
FirstLine(text) == SubSeq(text, 1, IndexOf(text, "\n") - 1)

C18_BufferBetweenFragments ==
    /\ [](\A r \in Calls :
             (call[r].pc = "read" /\ IndexOf(call[r].textBuffer, "\n") # 0) =>
                 \A first \in {FirstLine(call[r].textBuffer)} : Failing(first))
    /\ [][\A r \in Calls :
             (ChunkStep(r) /\ call'[r].pc = "read") =>
                 \A buf \in {call'[r].textBuffer} :
                     IF PushedBack(call'[r].trace)
                     THEN /\ IndexOf(buf, "\n") # 0
                          /\ FirstLine(buf) = StripCR(call'[r].trace[Len(call'[r].trace)].raw)
                     ELSE \A w \in {Work(r)} : buf = TrailingPartial(w)]_vars

\* both cases at once: a line that failed is at the front of the buffer and
\* the partial line a later fragment brought is behind it
C18_Witness ==
    \E r \in Calls :
        /\ call[r].pc = "read"
        /\ PushedBack(call[r].trace)
        /\ Len(CompleteLines(call[r].textBuffer)) = 1
        /\ TrailingPartial(call[r].textBuffer) # << >>

(***************************************************************************)
(* C19.  When the transport reports end-of-stream, decoding stops without  *)
(* examining the pending buffer: a final `data: ` line that no newline     *)
(* ends produces no event, so its delta text is missing from the assistant *)
(* message, and no error is raised.                                        *)
(***************************************************************************)
\* read() of call r resolves with done
CloseStep(r) == call[r].pc = "read" /\ call'[r].pc = "end" /\ lastOp' = "read:done"

C19_EndOfStreamDropsUnterminatedLine ==
    [][\A r \in Calls :
          CloseStep(r) =>
              /\ messages' = messages
              /\ call'[r].deltas = call[r].deltas
              /\ call'[r].assistantContent = call[r].assistantContent
              /\ call'[r].textBuffer = call[r].textBuffer
              /\ call'[r].toasts = 0
              /\ call'[r].removed = << >>
              /\ ~call'[r].streamDone
              /\ messages'[Len(messages')]
                     = [role |-> "assistant", content |-> Concat(call[r].deltas)]
              /\ \A last \in {call[r].textBuffer} :
                     (IndexOf(last, "\n") = 0 /\ ValidDelta(StripCR(last))) =>
                         OneShot(Body(call[r]) \o <<"\n">>)
                             = call[r].deltas
                                 \o <<JsString(DeltaContent(Payload(StripCR(last))).content)>>]_vars

\* the body was "é" and then a record with the text "a" that no newline
\* ended: the stream closed, the message is "é"
C19_Witness ==
    \E r \in Calls :
        /\ call[r].pc = "end"
        /\ lastOp = "read:done"
        /\ call[r].deltas = <<<<Eacute>>>>
        /\ IndexOf(call[r].textBuffer, "\n") = 0
        /\ ValidDelta(call[r].textBuffer)
        /\ messages[Len(messages)].content = <<Eacute>>

(***************************************************************************)
(* C20.  Decoder state is per request: the pending buffer and the          *)
(* accumulated reply text are empty at the start of every request, so for  *)
(* any sequence of requests (including ones that ended with leftover       *)
(* buffered bytes, a pushed-back line, or an error) the assistant message  *)
(* of a request contains only text decoded from that request's own stream. *)
(***************************************************************************)
C20_DecoderStatePerRequest ==
    /\ [][lastOp' = "sendMessage" =>
             \A r \in {ncalls'} :
                 /\ call'[r].pc = "fetch"
                 /\ call'[r].textBuffer = << >>
                 /\ call'[r].assistantContent = << >>
                 /\ call'[r].pend = << >>
                 /\ ~call'[r].streamDone
                 /\ call'[r].deltas = << >>]_vars
    /\ [](\A r \in Calls :
             Streaming(r) =>
                 \A own \in {OneShot(Delivered(call[r]))} :
                     /\ call[r].deltas = own
                     /\ call[r].assistantContent = Concat(own)
                     /\ Len(messages) = Len(call[r].base) + 2
                     /\ messages[Len(messages)]
                            = [role |-> "assistant", content |-> Concat(own)])

\* the first request ended with an error after its placeholder was appended;
\* the second has applied the text of its own stream, and nothing else
C20_Witness ==
    /\ ncalls = 2
    /\ Streaming(2)
    /\ Len(call[2].base) = 2
    /\ call[2].base[2].role = "user"
    /\ call[2].deltas = <<<<"a">>>>
    /\ messages[Len(messages)].content = <<"a">>

(***************************************************************************)
(* The planner (src/src/components/FitnessPlanner.tsx): numbers.           *)
(*                                                                         *)
(* A number is NaN or a count of hundredths: the strings the model parses  *)
(* have at most two decimals and no exponent, and heights are whole        *)
(* centimetres.                                                            *)
(***************************************************************************)
NaN == [nan |-> TRUE, c |-> 0]
Num(c) == [nan |-> FALSE, c |-> c]

DigitChars == <<"0", "1", "2", "3", "4", "5", "6", "7", "8", "9">>
IsDigit(ch) == \E d \in 1..10 : DigitChars[d] = ch
DigitOf(ch) == (CHOOSE d \in 1..10 : DigitChars[d] = ch) - 1

\* where the run of digits that starts at position i ends (one past its last)
RunEnd(s, i) ==
    CHOOSE j \in i..(Len(s) + 1) :
        /\ \A k \in i..(j - 1) : IsDigit(s[k])
        /\ j = Len(s) + 1 \/ ~IsDigit(s[j])

\* the value of the digits s[a], ..., s[b - 1]
RECURSIVE DigitsValue(_, _, _)
DigitsValue(s, a, b) ==
    IF a >= b THEN 0 ELSE DigitsValue(s, a, b - 1) * 10 + DigitOf(s[b - 1])

\* parseFloat: leading white space, a sign, digits, a point and digits; what
\* follows is ignored; NaN when there is no digit
ParseFloat(s) ==
    LET start == CHOOSE j \in 1..(Len(s) + 1) :
                     /\ \A k \in 1..(j - 1) : s[k] \in WhiteSpace
                     /\ j = Len(s) + 1 \/ s[j] \notin WhiteSpace
        signed == start <= Len(s) /\ s[start] \in {"-", "+"}
        i == IF signed THEN start + 1 ELSE start
        j == RunEnd(s, i)
        k == IF j <= Len(s) /\ s[j] = "." THEN RunEnd(s, j + 1) ELSE j
        tenths == IF k > j + 1 THEN DigitOf(s[j + 1]) ELSE 0
        hundredths == IF k > j + 2 THEN DigitOf(s[j + 2]) ELSE 0
        magnitude == DigitsValue(s, i, j) * 100 + tenths * 10 + hundredths
    IN  IF j = i /\ k <= j + 1 THEN NaN
        ELSE IF signed /\ s[start] = "-" THEN Num(0 - magnitude)
        ELSE Num(magnitude)

\* the decimal digits of a natural number
RECURSIVE IntString(_)
IntString(n) ==
    IF n < 10 THEN <<DigitChars[n + 1]>>
    ELSE Append(IntString(n \div 10), DigitChars[(n % 10) + 1])

\* (c / 100).toFixed(2) for c >= 0
ToFixed2(c) ==
    IntString(c \div 100) \o <<".", DigitChars[((c \div 10) % 10) + 1], DigitChars[(c % 10) + 1]>>

\* lines 89-92.  The quotient is rounded to the nearest hundredth; when it
\* lies halfway between two hundredths the double that stands for it is on
\* either side, so both strings are possible.
calculateBMI(weight, height) ==
    LET num == weight.c * 10000
        den == (height.c \div 100) * (height.c \div 100)
        low == num \div den
        rest == num % den
    IN  IF 2 * rest < den THEN {ToFixed2(low)}
        ELSE IF 2 * rest > den THEN {ToFixed2(low + 1)}
        ELSE {ToFixed2(low), ToFixed2(low + 1)}

\* a classification whose first bound belongs to the class below
getBMICategoryInclusive(bmi) ==
    IF ~bmi.nan /\ bmi.c <= 1850 THEN "Underweight"
    ELSE IF ~bmi.nan /\ bmi.c < 2500 THEN "Healthy"
    ELSE IF ~bmi.nan /\ bmi.c < 3000 THEN "Overweight"
    ELSE "Obese"

\* lines 94-99; a comparison with NaN is false
getBMICategory(bmi) ==
    IF ~bmi.nan /\ bmi.c < 1850 THEN "Underweight"
    ELSE IF ~bmi.nan /\ bmi.c < 2500 THEN "Healthy"
    ELSE IF ~bmi.nan /\ bmi.c < 3000 THEN "Overweight"
    ELSE "Obese"

\* the weights and heights the index is studied on
Weights == {Num(c) : c \in 1..MaxWeight}
Heights == {Num(10000), Num(15000), Num(20000)}

BmiInit ==
    /\ ChatInit
    /\ DbIdle
    /\ HistoryIdle
    /\ PlannerIdle
    /\ UploadIdle
    /\ LoggerIdle
    /\ notified = << >>
    /\ called = << >>
    /\ \E w \in Weights, h \in Heights : args = [fn |-> "bmi", weight |-> w, height |-> h]
    /\ returned = [fn |-> "none"]

\* lines 165-166 of generatePlan
ComputeBMI ==
    /\ args.fn = "bmi"
    /\ returned.fn = "none"
    /\ \E str \in calculateBMI(args.weight, args.height) :
       \E bmi \in {ParseFloat(str)} :
          returned' = [fn |-> "bmi", bmi |-> bmi, category |-> getBMICategory(bmi)]
    /\ UNCHANGED args

\* what the study of a function leaves alone
FnRest == <<chatVars, dbVars, deleting, plannerVars, uploadVars, loggerVars, notified, called>>

BmiNext == ComputeBMI /\ UNCHANGED FnRest

BmiSpec == BmiInit /\ [][BmiNext]_vars

(***************************************************************************)
(* C21.  getBMICategory applied to the BMI rounded to two decimals assigns *)
(* exactly one category to every positive weight and height: Underweight   *)
(* below 18.5, Healthy from 18.5 and below 25, Overweight from 25 and      *)
(* below 30, Obese otherwise; the category is monotone non-decreasing in   *)
(* the BMI.                                                                *)
(***************************************************************************)
Rank(category) ==
    CASE category = "Underweight" -> 1
      [] category = "Healthy" -> 2
      [] category = "Overweight" -> 3
      [] category = "Obese" -> 4

C21_CategoryOfRoundedBMI ==
    returned.fn = "bmi" =>
        \A b \in {returned.bmi.c} :
        \A den \in {(args.height.c \div 100) * (args.height.c \div 100)} :
            /\ ~returned.bmi.nan
            \* the BMI is the quotient rounded to two decimals
            /\ 2 * (b * den - args.weight.c * 10000) <= den
            /\ 2 * (args.weight.c * 10000 - b * den) <= den
            /\ returned.category \in {"Underweight", "Healthy", "Overweight", "Obese"}
            /\ returned.category = "Underweight" <=> b < 1850
            /\ returned.category = "Healthy" <=> (b >= 1850 /\ b < 2500)
            /\ returned.category = "Overweight" <=> (b >= 2500 /\ b < 3000)
            /\ returned.category = "Obese" <=> b >= 3000
            /\ b > 0 => Rank(getBMICategory(Num(b - 1))) <= Rank(returned.category)
            /\ Rank(returned.category) <= Rank(getBMICategory(Num(b + 1)))

\* 74 kg at 200 cm: the BMI is 18.5 exactly, and Healthy
C21_Witness ==
    /\ returned.fn = "bmi"
    /\ args.weight = Num(7400)
    /\ args.height = Num(20000)
    /\ returned.bmi = Num(1850)
    /\ returned.category = "Healthy"

(***************************************************************************)
(* The History page (src/src/pages/History.tsx): deletePlan calls that     *)
(* overlap.  The page is the one of user "A"; a call is made for a plan    *)
(* the page shows, runs on the server at some time, and its continuation   *)
(* runs at some later time.                                                *)
(***************************************************************************)
HistoryInit ==
    /\ ChatInit
    \* the plans saved before the page is opened, by "A" and by "B"
    /\ \E owner \in [Ids -> Users \cup {Null}] :
          fitness_plans = {[id |-> i, user_id |-> owner[i]] : i \in {j \in Ids : owner[j] # Null}}
    /\ workout_logs = {}
    /\ objects = {}
    /\ plans = [u \in Users |-> {}]
    /\ result = {}
    /\ stmt = [actor |-> "none", kind |-> "none", table |-> "none"]
    /\ FnIdle
    /\ HistoryIdle
    /\ PlannerIdle
    /\ UploadIdle
    /\ LoggerIdle
    /\ notified = << >>
    /\ called = << >>

\* lines 38-63: the page is opened and the plans are fetched
OpenHistory ==
    /\ stmt.kind = "none"
    /\ FetchPlans("A")
    /\ notified' = << >>
    /\ UNCHANGED deleting

\* lines 76-81: the delete button of a plan on display is pressed; the call
\* holds the list of the render and awaits the statement
ClickDelete(id) ==
    /\ \E p \in plans["A"] : p.id = id
    /\ deleting[id].pc \in {"none", "returned"}
    /\ deleting' = [deleting EXCEPT ![id] = [pc |-> "sent", plans |-> plans["A"],
                                             error |-> FALSE]]
    /\ notified' = << >>
    /\ UNCHANGED <<fitness_plans, workout_logs, objects, plans, result, stmt>>

\* the statement runs on the server, or fails before it does
ServerDelete(id, fails) ==
    /\ deleting[id].pc = "sent"
    /\ \E gone \in {IF fails THEN {}
                    ELSE {p \in fitness_plans : p.id = id /\ PlansDeleteUsing("A", p)}} :
          /\ fitness_plans' = fitness_plans \ gone
          /\ workout_logs' = SetNull(workout_logs, {p.id : p \in gone})
    /\ stmt' = Statement("A", "delete", "fitness_plans")
    /\ deleting' = [deleting EXCEPT ![id].pc = "resolved", ![id].error = fails]
    /\ notified' = << >>
    /\ UNCHANGED <<objects, plans, result>>

\* line 85: plans.filter(plan => plan.id !== id), on the list of the closure
FilterClosure(c, id) == {p \in c.plans : p.id # id}

\* lines 83-96: the continuation of the call
ResumeDelete(id) ==
    /\ deleting[id].pc = "resolved"
    /\ IF deleting[id].error
       THEN /\ notified' = <<"Error">>
            /\ UNCHANGED plans
       ELSE /\ plans' = [plans EXCEPT !["A"] = FilterClosure(deleting[id], id)]
            /\ notified' = <<"Deleted">>
    /\ deleting' = [deleting EXCEPT ![id].pc = "returned"]
    /\ UNCHANGED <<fitness_plans, workout_logs, objects, result, stmt>>

\* what the History page leaves alone
HistoryRest == <<chatVars, fnVars, plannerVars, uploadVars, loggerVars, called>>

HistoryNext ==
    \/ OpenHistory /\ UNCHANGED HistoryRest
    \/ \E id \in Ids : ClickDelete(id) /\ UNCHANGED HistoryRest
    \/ \E id \in Ids, fails \in BOOLEAN : ServerDelete(id, fails) /\ UNCHANGED HistoryRest
    \/ \E id \in Ids : ResumeDelete(id) /\ UNCHANGED HistoryRest

HistorySpec == HistoryInit /\ [][HistoryNext]_vars

(***************************************************************************)
(* C22.  For any two deletePlan calls on different plans that are both     *)
(* issued before either completes and that both succeed on the server, in  *)
(* every interleaving the displayed plan list afterwards contains neither  *)
(* of the two deleted plans.                                               *)
(***************************************************************************)
\* the call for plan i has returned and its statement succeeded
Deleted(i) == deleting[i].pc = "returned" /\ ~deleting[i].error

\* the calls for i and j were both made before either returned: each holds a
\* list that still shows the plan of the other
Overlapped(i, j) ==
    /\ \E p \in deleting[i].plans : p.id = j
    /\ \E p \in deleting[j].plans : p.id = i

C22_OverlappingDeletesBothGone ==
    \A i \in Ids, j \in Ids :
        (i # j /\ Deleted(i) /\ Deleted(j) /\ Overlapped(i, j)) =>
            \A p \in plans["A"] : p.id \notin {i, j}

(***************************************************************************)
(* The planner: what generatePlan computes from the form.                  *)
(***************************************************************************)
\* lines 31-47 and 53-59
EQUIPMENT_OPTIONS ==
    <<[id |-> "bodyweight", label |-> "Bodyweight Only"],
      [id |-> "dumbbells", label |-> "Dumbbells"],
      [id |-> "barbell", label |-> "Barbell & Plates"],
      [id |-> "kettlebell", label |-> "Kettlebells"],
      [id |-> "resistance_bands", label |-> "Resistance Bands"],
      [id |-> "pull_up_bar", label |-> "Pull-up Bar"],
      [id |-> "treadmill", label |-> "Treadmill"],
      [id |-> "stationary_bike", label |-> "Stationary Bike"],
      [id |-> "rowing_machine", label |-> "Rowing Machine"],
      [id |-> "cable_machine", label |-> "Cable Machine"],
      [id |-> "bench", label |-> "Workout Bench"],
      [id |-> "yoga_mat", label |-> "Yoga Mat"],
      [id |-> "medicine_ball", label |-> "Medicine Ball"],
      [id |-> "jump_rope", label |-> "Jump Rope"],
      [id |-> "foam_roller", label |-> "Foam Roller"]>>

DIET_OPTIONS ==
    <<[id |-> "veg", label |-> "Vegetarian"],
      [id |-> "nonveg", label |-> "Non-Vegetarian"],
      [id |-> "vegan", label |-> "Vegan"],
      [id |-> "keto", label |-> "Keto"],
      [id |-> "paleo", label |-> "Paleo"]>>

\* xs.includes(x)
Includes(xs, x) == \E i \in 1..Len(xs) : xs[i] = x

\* xs.slice(a, b) for 0 <= a <= b; positions are counted from 0
Slice(xs, a, b) == SubSeq(xs, a + 1, Min(b, Len(xs)))

\* a copy that keeps every occurrence
KeepDuplicates(xs) == xs

\* [...new Set(xs)]: the first occurrence of every element, in order
RECURSIVE Unique(_)
Unique(xs) ==
    IF xs = << >> THEN << >>
    ELSE LET init == Unique(SubSeq(xs, 1, Len(xs) - 1))
             last == xs[Len(xs)]
         IN  IF Includes(init, last) THEN init ELSE Append(init, last)

\* lines 173-227: the exercises pushed for each piece of equipment, in the
\* order of the tests ("foam_roller" has none)
EquipmentExercises ==
    <<[id |-> "bodyweight",
       items |-> <<"Push-Ups (3x15)", "Bodyweight Squats (3x20)", "Planks (3x45s)",
                   "Lunges (3x12 each)", "Mountain Climbers (3x30s)">>],
      [id |-> "dumbbells",
       items |-> <<"Dumbbell Bench Press (4x10)", "Dumbbell Shoulder Press (3x12)",
                   "Dumbbell Bicep Curls (3x12)", "Dumbbell Rows (3x10)",
                   "Goblet Squats (3x12)">>],
      [id |-> "barbell",
       items |-> <<"Barbell Deadlift (4x6)", "Barbell Squats (4x8)",
                   "Barbell Bench Press (4x8)", "Barbell Rows (4x8)",
                   "Overhead Press (3x10)">>],
      [id |-> "kettlebell",
       items |-> <<"Kettlebell Swings (4x15)", "Goblet Squats (3x12)",
                   "Turkish Get-Ups (2x5 each)", "Kettlebell Clean & Press (3x10)">>],
      [id |-> "resistance_bands",
       items |-> <<"Banded Rows (3x15)", "Banded Squats (3x15)",
                   "Banded Chest Press (3x12)", "Banded Face Pulls (3x15)",
                   "Banded Bicep Curls (3x15)">>],
      [id |-> "pull_up_bar",
       items |-> <<"Pull-Ups (3x max)", "Chin-Ups (3x max)", "Hanging Leg Raises (3x10)",
                   "Dead Hangs (3x30s)">>],
      [id |-> "treadmill",
       items |-> <<"Treadmill Running (20-30 mins)", "Incline Walk (15 mins)",
                   "HIIT Sprints (10x30s)">>],
      [id |-> "stationary_bike",
       items |-> <<"Cycling Intervals (20 mins)", "Steady State Cycling (30 mins)",
                   "HIIT Bike Sprints (15 mins)">>],
      [id |-> "rowing_machine",
       items |-> <<"Rowing Intervals (15 mins)", "Steady State Rowing (20 mins)",
                   "500m Row Sprints (5 rounds)">>],
      [id |-> "cable_machine",
       items |-> <<"Cable Flyes (3x12)", "Cable Rows (3x12)", "Tricep Pushdowns (3x15)",
                   "Face Pulls (3x15)", "Cable Woodchops (3x10 each)">>],
      [id |-> "bench",
       items |-> <<"Incline Dumbbell Press (3x10)", "Step-Ups (3x12 each)",
                   "Hip Thrusts (3x12)", "Box Jumps (3x10)">>],
      [id |-> "yoga_mat",
       items |-> <<"Yoga Flow (15-20 mins)", "Stretching Routine (10 mins)",
                   "Core Work (Crunches, Leg Raises)", "Glute Bridges (3x15)">>],
      [id |-> "medicine_ball",
       items |-> <<"Medicine Ball Slams (3x15)", "Wall Balls (3x12)",
                   "Russian Twists with Ball (3x20)", "Med Ball Push-Ups (3x10)">>],
      [id |-> "jump_rope",
       items |-> <<"Jump Rope (5 mins)", "Double Unders (3x30s)",
                   "Jump Rope HIIT (10 mins)">>]>>

\* lines 173 and 177-227: the test that guards each push
Selected(selectedEquipment, id) ==
    IF id = "bodyweight"
    THEN selectedEquipment = << >> \/ Includes(selectedEquipment, "bodyweight")
    ELSE Includes(selectedEquipment, id)

\* lines 229-234
GoalExercises(goal) ==
    IF goal = "lose" THEN <<"Burpees (3x10)", "High Knees (3x45s)", "Box Jumps (3x10)">>
    ELSE IF goal = "gain"
    THEN <<"Progressive Overload Focus", "Compound Movements Priority",
           "Rest 2-3 mins between sets">>
    ELSE << >>

\* lines 168-234: the exercises after the first n tests
RECURSIVE Pushed(_, _)
Pushed(selectedEquipment, n) ==
    IF n = 0 THEN << >>
    ELSE Pushed(selectedEquipment, n - 1)
            \o (IF Selected(selectedEquipment, EquipmentExercises[n].id)
                THEN EquipmentExercises[n].items ELSE << >>)

Exercises(selectedEquipment, goal) ==
    Pushed(selectedEquipment, Len(EquipmentExercises)) \o GoalExercises(goal)

\* line 114
RestDays(activityLevel) ==
    IF activityLevel = "low" THEN 3 ELSE IF activityLevel = "moderate" THEN 2 ELSE 1

\* a test that takes the first day after the workout days for a workout day
IsRestDayOffByOne(index, workoutDays) == index > workoutDays

\* line 130
IsRestDay(index, workoutDays) == index >= workoutDays

\* lines 117-127
FocusAreas(goal) ==
    IF goal = "gain"
    THEN <<"Chest & Triceps", "Back & Biceps", "Legs & Glutes", "Shoulders & Core",
           "Full Body", "Active Recovery", "Rest">>
    ELSE IF goal = "lose"
    THEN <<"HIIT & Cardio", "Upper Body", "Lower Body & Core", "Cardio & Mobility",
           "Full Body Circuit", "Active Recovery", "Rest">>
    ELSE <<"Upper Body", "Lower Body", "Cardio & Core", "Full Body",
           "Flexibility & Mobility", "Active Recovery", "Rest">>

Durations(goal) ==
    IF goal = "gain"
    THEN <<"45-60 mins", "45-60 mins", "50-60 mins", "40-50 mins", "45-55 mins",
           "30 mins", "Rest">>
    ELSE IF goal = "lose"
    THEN <<"30-40 mins", "40-50 mins", "40-50 mins", "35-45 mins", "35-45 mins",
           "20-30 mins", "Rest">>
    ELSE <<"40-50 mins", "40-50 mins", "30-40 mins", "40-50 mins", "30 mins",
           "20-30 mins", "Rest">>

Days == <<"Monday", "Tuesday", "Wednesday", "Thursday", "Friday", "Saturday", "Sunday">>

\* lines 131-135, for a day that is not a rest day
DayExercises(exercises, index) ==
    IF Slice(exercises, index * 3, index * 3 + 4) # << >>
    THEN Slice(exercises, index * 3, index * 3 + 4)
    ELSE Slice(exercises, 0, 4)

\* lines 110-146; index counts the days from 0
generateWeeklyPlan(goal, exercises, activityLevel) ==
    LET workoutDays == 7 - RestDays(activityLevel)
        Entry(index) ==
            IF IsRestDay(index, workoutDays)
            THEN [day |-> Days[index + 1],
                  focus |-> IF index = 6 THEN "Rest Day" ELSE "Active Recovery",
                  exercises |-> <<"Light stretching", "Walking", "Foam rolling">>,
                  duration |-> IF index = 6 THEN "Rest" ELSE "20-30 mins"]
            ELSE [day |-> Days[index + 1],
                  focus |-> FocusAreas(goal)[(index % 7) + 1],
                  exercises |-> DayExercises(exercises, index),
                  duration |-> Durations(goal)[(index % 7) + 1]]
    IN  [i \in 1..7 |-> Entry(i - 1)]

\* the pieces of equipment selected at most when the weekly plan is studied
MaxEquipment == 2

Goals == {"maintain", "lose", "gain"}

\* the sets of at most n pieces of equipment, each in the order of the options
RECURSIVE Selections(_, _)
Selections(k, n) ==
    IF k = 0 THEN {<< >>}
    ELSE Selections(k - 1, n)
            \cup {Append(sel, EQUIPMENT_OPTIONS[k].id) :
                      sel \in {x \in Selections(k - 1, n) : Len(x) < n}}

\* generateWeeklyPlan is called with the goal and the activity level of the
\* form and the exercises generatePlan has pushed; the activity level is any
\* string
WeeklyInit ==
    /\ ChatInit
    /\ DbIdle
    /\ HistoryIdle
    /\ PlannerIdle
    /\ UploadIdle
    /\ LoggerIdle
    /\ notified = << >>
    /\ called = << >>
    /\ \E goal \in Goals, level \in {"low", "moderate", "high", "other"},
          sel \in Selections(Len(EQUIPMENT_OPTIONS), MaxEquipment) :
          args = [fn |-> "weekly", goal |-> goal, activityLevel |-> level,
                  exercises |-> Exercises(sel, goal)]
    /\ returned = [fn |-> "none"]

\* line 237
CallWeeklyPlan ==
    /\ args.fn = "weekly"
    /\ returned.fn = "none"
    /\ returned' = [fn |-> "weekly",
                    weeklyPlan |-> generateWeeklyPlan(args.goal, args.exercises,
                                                      args.activityLevel)]
    /\ UNCHANGED args

WeeklyNext == CallWeeklyPlan /\ UNCHANGED FnRest

WeeklySpec == WeeklyInit /\ [][WeeklyNext]_vars

(***************************************************************************)
(* C25.  generateWeeklyPlan always returns exactly 7 entries in order      *)
(* Monday..Sunday; the rest entries are exactly the last 3, 2 or 1 days of *)
(* the week for activity level low, moderate or high (any other value      *)
(* counts as high); Sunday is always focus "Rest Day" with duration        *)
(* "Rest"; every non-rest day lists at most 4 exercises taken from the     *)
(* exercises argument.                                                     *)
(***************************************************************************)
\* the entries generateWeeklyPlan fills as rest days
RestEntry(entry) ==
    /\ entry.focus \in {"Rest Day", "Active Recovery"}
    /\ entry.exercises = <<"Light stretching", "Walking", "Foam rolling">>
    /\ entry.duration \in {"Rest", "20-30 mins"}

C25_WeeklyPlanShape ==
    returned.fn = "weekly" =>
        \A week \in {returned.weeklyPlan} :
        \A rest \in {CASE args.activityLevel = "low" -> 3
                       [] args.activityLevel = "moderate" -> 2
                       [] OTHER -> 1} :
            /\ Len(week) = 7
            /\ \A i \in 1..7 : week[i].day = Days[i]
            /\ \A i \in 1..7 :
                   IF i > 7 - rest
                   THEN /\ RestEntry(week[i])
                        /\ week[i].focus = "Rest Day" <=> i = 7
                        /\ week[i].duration = "Rest" <=> i = 7
                   ELSE /\ week[i].focus = FocusAreas(args.goal)[i]
                        /\ week[i].focus # "Rest Day"
                        /\ week[i].duration = Durations(args.goal)[i]
                        /\ Len(week[i].exercises) <= 4
                        /\ \A k \in 1..Len(week[i].exercises) :
                               Includes(args.exercises, week[i].exercises[k])
            /\ week[7].focus = "Rest Day" /\ week[7].duration = "Rest"

\* high activity, 13 exercises: Saturday is a workout day and, with nothing
\* at positions 15 to 18, repeats the first four exercises
C25_Witness ==
    /\ returned.fn = "weekly"
    /\ args.activityLevel = "high"
    /\ Len(args.exercises) = 13
    /\ returned.weeklyPlan[6].focus = "Active Recovery"
    /\ returned.weeklyPlan[6].exercises = SubSeq(args.exercises, 1, 4)
    /\ returned.weeklyPlan[7].focus = "Rest Day"

(***************************************************************************)
(* The planner as a component: the form, its handlers and generatePlan.    *)
(***************************************************************************)
\* how many times the form is edited in one behaviour
MaxEdits == 5

\* what can be typed as a weight and as a height (a number input gives the
\* empty string for a text that is not a number)
WeightInputs ==
    {<< >>, <<"x">>, <<"0">>, <<"-", "5">>, <<"7", "0">>, <<"0", ".", "0", "1">>}
HeightInputs == {<< >>, <<"0">>, <<"2", "0", "0">>}

ActivityLevels == {"low", "moderate", "high"}

\* the options that are toggled
DietIds == {"veg", "nonveg", "vegan", "keto"}
EquipmentIds == {"bodyweight", "dumbbells", "kettlebell", "foam_roller"}

\* xs.filter(x => x !== gone)
Remove(xs, gone) == SelectSeq(xs, LAMBDA x : x # gone)

\* lines 75-82
toggleEquipment(equipment, equipmentId) ==
    IF Includes(equipment, equipmentId) THEN Remove(equipment, equipmentId)
    ELSE Append(equipment, equipmentId)

\* a toggle that lets the last preference go
toggleDietPreferenceNoDefault(dietPreferences, dietId) ==
    IF Includes(dietPreferences, dietId) THEN Remove(dietPreferences, dietId)
    ELSE Append(dietPreferences, dietId)

\* lines 101-108
toggleDietPreference(dietPreferences, dietId) ==
    LET newPrefs == IF Includes(dietPreferences, dietId)
                    THEN Remove(dietPreferences, dietId)
                    ELSE Append(dietPreferences, dietId)
    IN  IF Len(newPrefs) > 0 THEN newPrefs ELSE <<"veg">>

\* line 155: !weight || !height || weight <= 0 || height <= 0
Invalid(weight, height) ==
    \/ weight.nan \/ weight.c = 0
    \/ height.nan \/ height.c = 0
    \/ weight.c <= 0
    \/ height.c <= 0

\* lines 239-275
Diet(goal, dietPreferences) ==
    LET hasVeg == Includes(dietPreferences, "veg")
        hasNonVeg == Includes(dietPreferences, "nonveg")
        hasVegan == Includes(dietPreferences, "vegan")
        hasKeto == Includes(dietPreferences, "keto")
        If(test, items) == IF test THEN items ELSE << >>
    IN  IF goal = "gain"
        THEN If(hasNonVeg, <<"Breakfast: Omelette + Whole wheat bread + Milk",
                             "Lunch: Brown rice + Grilled Chicken + Veggies">>)
             \o If(hasVeg \/ hasVegan, <<"Breakfast: Paneer bhurji + Whole wheat bread",
                                        "Lunch: Rajma + Brown rice + Ghee">>)
             \o If(hasKeto, <<"Breakfast: Eggs + Avocado + Cheese",
                              "Lunch: Grilled meat + Leafy greens + Olive oil">>)
             \o <<"Snack: Dry fruits + Smoothie", "Dinner: High-protein meal + Salad">>
        ELSE IF goal = "lose"
        THEN If(hasNonVeg, <<"Breakfast: Boiled eggs + Oats",
                             "Lunch: Grilled fish + Brown rice + Salad">>)
             \o If(hasVeg \/ hasVegan, <<"Breakfast: Oats + Banana + Green tea",
                                        "Lunch: Moong dal + Brown rice + Veggies">>)
             \o If(hasKeto, <<"Breakfast: Eggs + Spinach + Butter",
                              "Lunch: Grilled protein + Cauliflower rice">>)
             \o <<"Snack: Roasted chana + Buttermilk", "Dinner: Light soup + Salad">>
        ELSE If(hasNonVeg, <<"Breakfast: Scrambled eggs + Fruits",
                             "Lunch: Mixed dal + Chicken + Veg curry">>)
             \o If(hasVeg \/ hasVegan, <<"Breakfast: Upma/Poha + Milk",
                                        "Lunch: Khichdi + Curd + Salad">>)
             \o <<"Snack: Fresh fruits + Nuts", "Dinner: Balanced meal + Vegetables">>

\* OPTIONS.find(o => o.id === id)?.label
Label(options, id) ==
    IF \E i \in 1..Len(options) : options[i].id = id
    THEN options[CHOOSE i \in 1..Len(options) : options[i].id = id].label
    ELSE "undefined"

\* lines 278-288: the notes, each as the parts its text is made of
Notes(bmi, category, goal, dietPreferences, selectedEquipment) ==
    <<<<"Your BMI: ", bmi, category>>,
      IF goal = "lose" THEN "Focus on calorie deficit and daily step target (8k-10k)"
      ELSE IF goal = "gain" THEN "Add 400-500 kcal/day; focus on protein-rich meals"
      ELSE "Maintain balance with consistent training & nutrition",
      "Stay hydrated - drink 2-3 liters of water daily",
      "Get 7-8 hours of quality sleep for recovery",
      <<"Diet preferences: ",
        [i \in 1..Len(dietPreferences) |-> Label(DIET_OPTIONS, dietPreferences[i])]>>,
      <<"Equipment: ",
        IF Len(selectedEquipment) > 0
        THEN [i \in 1..Len(selectedEquipment) |->
                 Label(EQUIPMENT_OPTIONS, selectedEquipment[i])]
        ELSE <<"Bodyweight only">>>>>>

\* lines 434 and 445: onChange of the height and weight inputs
SetHeight(v) ==
    /\ edits < MaxEdits
    /\ v # formData.height
    /\ formData' = [formData EXCEPT !.height = v]
    /\ edits' = edits + 1
    /\ notified' = << >>
    /\ UNCHANGED <<plan, planLoading>>

SetWeight(v) ==
    /\ edits < MaxEdits
    /\ v # formData.weight
    /\ formData' = [formData EXCEPT !.weight = v]
    /\ edits' = edits + 1
    /\ notified' = << >>
    /\ UNCHANGED <<plan, planLoading>>

\* lines 451 and 471: onValueChange of the radio groups
SetActivityLevel(v) ==
    /\ edits < MaxEdits
    /\ v # formData.activityLevel
    /\ formData' = [formData EXCEPT !.activityLevel = v]
    /\ edits' = edits + 1
    /\ notified' = << >>
    /\ UNCHANGED <<plan, planLoading>>

SetGoal(v) ==
    /\ edits < MaxEdits
    /\ v # formData.goal
    /\ formData' = [formData EXCEPT !.goal = v]
    /\ edits' = edits + 1
    /\ notified' = << >>
    /\ UNCHANGED <<plan, planLoading>>

\* line 495: onCheckedChange of a diet checkbox
ToggleDietPreference(dietId) ==
    /\ edits < MaxEdits
    /\ formData' = [formData EXCEPT
                       !.dietPreferences = toggleDietPreference(@, dietId)]
    /\ edits' = edits + 1
    /\ notified' = << >>
    /\ UNCHANGED <<plan, planLoading>>

\* line 517: onCheckedChange of an equipment checkbox
ToggleEquipment(equipmentId) ==
    /\ edits < MaxEdits
    /\ formData' = [formData EXCEPT !.equipment = toggleEquipment(@, equipmentId)]
    /\ edits' = edits + 1
    /\ notified' = << >>
    /\ UNCHANGED <<plan, planLoading>>

\* lines 148-312: generatePlan, which runs to its end without an await; no
\* statement of the try block throws.  The toast of line 299 is titled
\* "Plan Generated!" followed by an emoji.
GeneratePlan ==
    /\ \E weight \in {ParseFloat(formData.weight)} :
       \E height \in {ParseFloat(formData.height)} :
          IF Invalid(weight, height)
          THEN /\ notified' = <<"Invalid Input">>
               /\ UNCHANGED plan
          ELSE /\ \E str \in calculateBMI(weight, height) :
                  \E bmi \in {ParseFloat(str)} :
                  \E category \in {getBMICategory(bmi)} :
                  \E exercises \in {Exercises(formData.equipment, formData.goal)} :
                  \E diet \in {Diet(formData.goal, formData.dietPreferences)} :
                     plan' = [null |-> FALSE,
                              bmi |-> bmi,
                              category |-> category,
                              exercises |-> Slice(Unique(exercises), 0, 12),
                              diet |-> Slice(Unique(diet), 0, 6),
                              notes |-> Notes(bmi, category, formData.goal,
                                              formData.dietPreferences,
                                              formData.equipment),
                              weeklyPlan |-> generateWeeklyPlan(formData.goal, exercises,
                                                                formData.activityLevel)]
               /\ notified' = <<"Plan Generated!">>
    /\ planLoading' = FALSE
    /\ UNCHANGED <<formData, edits>>

\* what the planner leaves alone
PlannerRest == <<chatVars, dbVars, fnVars, deleting, uploadVars, loggerVars, called>>

PlannerNext ==
    \/ \E v \in HeightInputs : SetHeight(v) /\ UNCHANGED PlannerRest
    \/ \E v \in WeightInputs : SetWeight(v) /\ UNCHANGED PlannerRest
    \/ \E v \in ActivityLevels : SetActivityLevel(v) /\ UNCHANGED PlannerRest
    \/ \E v \in Goals : SetGoal(v) /\ UNCHANGED PlannerRest
    \/ \E id \in DietIds : ToggleDietPreference(id) /\ UNCHANGED PlannerRest
    \/ \E id \in EquipmentIds : ToggleEquipment(id) /\ UNCHANGED PlannerRest
    \/ GeneratePlan /\ UNCHANGED PlannerRest

PlannerSpec == Init /\ [][PlannerNext]_vars

(***************************************************************************)
(* C23.  After any sequence of toggleDietPreference calls starting from    *)
(* ["veg"], dietPreferences is non-empty, contains no duplicates, and      *)
(* toggling off the only remaining preference yields ["veg"] (so "veg"     *)
(* cannot be deselected when it is the only preference).                   *)
(***************************************************************************)
NoDuplicates(xs) == \A i \in 1..Len(xs), j \in 1..Len(xs) : xs[i] = xs[j] => i = j

C23_DietPreferencesNeverEmpty ==
    /\ [](/\ Len(formData.dietPreferences) > 0
          /\ NoDuplicates(formData.dietPreferences))
    /\ [][\A id \in DietIds :
             (ToggleDietPreference(id) /\ formData.dietPreferences = <<id>>) =>
                 formData'.dietPreferences = <<"veg">>]_vars

\* one edit has left the form as it was: "veg" was toggled when it was the
\* only preference
C23_Witness ==
    /\ edits = 1
    /\ formData.dietPreferences = <<"veg">>
    /\ formData.equipment = << >>
    /\ formData.goal = "maintain"
    /\ formData.activityLevel = "moderate"
    /\ formData.weight = << >>
    /\ formData.height = << >>

(***************************************************************************)
(* C24.  The generated plan always includes the bodyweight base exercises  *)
(* (Push-Ups, Bodyweight Squats, Planks, Lunges, Mountain Climbers) for    *)
(* every valid input, whatever equipment is selected, so the generated     *)
(* exercise list is never empty.                                           *)
(***************************************************************************)
BaseExercises ==
    {"Push-Ups (3x15)", "Bodyweight Squats (3x20)", "Planks (3x45s)",
     "Lunges (3x12 each)", "Mountain Climbers (3x30s)"}

C24_BaseExercisesAlwaysIncluded ==
    ~plan.null =>
        /\ \A base \in BaseExercises : Includes(plan.exercises, base)
        /\ plan.exercises # << >>

(***************************************************************************)
(* C28.  generatePlan with a weight or height that is missing,             *)
(* non-numeric, zero or negative leaves the previously generated plan (or  *)
(* null) and the form data unchanged, raises one Invalid Input             *)
(* notification, and ends with loading false; it never sets a plan whose   *)
(* BMI is not a finite positive number.                                    *)
(***************************************************************************)
\* a step of generatePlan: the only handler that raises a toast
GenerateStep == notified' # << >> /\ edits' = edits

\* the text is missing, not a number, zero or negative
Unusable(text) == ParseFloat(text).nan \/ ParseFloat(text).c <= 0

C28_RejectedInputKeepsPlan ==
    [][(GenerateStep /\ (Unusable(formData.weight) \/ Unusable(formData.height))) =>
          /\ plan' = plan
          /\ formData' = formData
          /\ notified' = <<"Invalid Input">>
          /\ ~planLoading']_vars

C28_InvalidInputLeavesPlan ==
    /\ C28_RejectedInputKeepsPlan
    /\ [](~plan.null => (~plan.bmi.nan /\ plan.bmi.c > 0))

(***************************************************************************)
(* C30.  For every valid input the plan set by generatePlan has an         *)
(* exercise list with no duplicates and at most 12 entries and a diet list *)
(* with no duplicates and at most 6 entries, each keeping the              *)
(* first-occurrence order of the generated items (the weekly plan, by      *)
(* contrast, is built from the untruncated, non-deduplicated exercise      *)
(* list).                                                                  *)
(***************************************************************************)
\* `out` is the first `limit` distinct items of `items`, each at the rank of
\* its first occurrence
FirstOccurrences(out, items, limit) ==
    \A firsts \in {{i \in 1..Len(items) : \A j \in 1..(i - 1) : items[j] # items[i]}} :
        /\ Len(out) = Min(limit, Cardinality(firsts))
        /\ \A k \in 1..Len(out) :
               \E i \in firsts : /\ Cardinality({j \in firsts : j <= i}) = k
                                 /\ out[k] = items[i]

C30_PlanListsDeduplicated ==
    [][(GenerateStep /\ notified' = <<"Plan Generated!">>) =>
          \A generated \in {Exercises(formData.equipment, formData.goal)} :
              /\ ~plan'.null
              /\ NoDuplicates(plan'.exercises)
              /\ Len(plan'.exercises) <= 12
              /\ FirstOccurrences(plan'.exercises, generated, 12)
              /\ NoDuplicates(plan'.diet)
              /\ Len(plan'.diet) <= 6
              /\ FirstOccurrences(plan'.diet,
                                  Diet(formData.goal, formData.dietPreferences), 6)
              /\ plan'.weeklyPlan
                     = generateWeeklyPlan(formData.goal, generated, formData.activityLevel)]_vars

\* bodyweight, dumbbells and kettlebell give 14 exercises with "Goblet
\* Squats (3x12)" twice: the plan lists 12, and Thursday of the weekly plan
\* has the duplicate and the fourteenth exercise
C30_Witness ==
    /\ ~plan.null
    /\ Len(plan.exercises) = 12
    /\ ~NoDuplicates(plan.weeklyPlan[4].exercises)
    /\ \E k \in 1..Len(plan.weeklyPlan[5].exercises) :
           ~Includes(plan.exercises, plan.weeklyPlan[5].exercises[k])

(***************************************************************************)
(* MedicalRecordUpload (MedicalRecordUpload.tsx) inside the planner, whose *)
(* setMedicalRecords is the onUploadComplete prop (FitnessPlanner.tsx 532). *)
(* handleFileUpload runs from one await to the next in one step.  A file   *)
(* is its type and its size in bytes; a stored name is the folder (the     *)
(* user's id) and the rest of the name, which Date.now() and Math.random() *)
(* make new each time: here the number of names generated so far.  The     *)
(* input is disabled while uploading.  removeFile can be clicked at any    *)
(* time and holds the list of the render it was clicked in.                *)
(***************************************************************************)
\* the files of one change event, at most
MaxFiles == 2

\* the names generated over a run, at most
MaxNames == 3

\* line 38
validTypes == <<"application/pdf", "image/jpeg", "image/jpg", "image/png", "image/webp">>

\* line 49: 10 * 1024 * 1024
MaxBytes == 10485760

UploadFiles ==
    {[type |-> "application/pdf", size |-> MaxBytes],
     [type |-> "image/png", size |-> MaxBytes + 1],
     [type |-> "text/plain", size |-> 1],
     [type |-> "image/webp", size |-> 1]}

FileLists == UNION {[1..n -> UploadFiles] : n \in 0..MaxFiles}

CheckTypeOnly(file) ==
    IF ~Includes(validTypes, file.type) THEN "Invalid file type" ELSE "ok"

\* lines 37-56: the toast a file is skipped with, or "ok"
Check(file) ==
    IF ~Includes(validTypes, file.type) THEN "Invalid file type"
    ELSE IF file.size > MaxBytes THEN "File too large"
    ELSE "ok"

\* lines 36-57: the loop up to the next file that is uploaded, from files[k]
\* on: the index of that file (Len(files) + 1 if there is none) and the
\* toasts of the files skipped
RECURSIVE SkipInvalid(_, _)
SkipInvalid(files, k) ==
    IF k > Len(files) \/ Check(files[k]) = "ok"
    THEN [k |-> k, toasts |-> << >>]
    ELSE LET r == SkipInvalid(files, k + 1)
         IN  [k |-> r.k, toasts |-> <<Check(files[k])>> \o r.toasts]

\* lines 36-92 from files[c.k] on, up to the next await or to the return;
\* `busy` is the value of uploading while the call goes on
LoopFrom(c, busy) ==
    \E r \in {SkipInvalid(c.files, c.k)} :
        IF r.k <= Len(c.files)
        THEN \* lines 58-63: a name is made and the upload awaited
             /\ uploadCall' = [c EXCEPT !.pc = "upload", !.k = r.k, !.named = c.named + 1]
             /\ uploading' = busy
             /\ notified' = r.toasts
             /\ called' = << >>
             /\ UNCHANGED <<uploadedFiles, medicalRecords>>
        ELSE \* lines 74-81 and 89-92
             \E newFiles \in {c.uploadedFiles \o c.uploadedUrls} :
                 /\ uploadedFiles' = newFiles
                 /\ medicalRecords' = newFiles
                 /\ called' = <<[prop |-> "onUploadComplete", arg |-> newFiles]>>
                 /\ notified' = r.toasts \o <<"Success">>
                 /\ uploading' = FALSE
                 /\ uploadCall' = [c EXCEPT !.pc = "none", !.k = r.k]

\* lines 18-22: the change event of the input, up to the await of getUser
ChooseFiles(files) ==
    /\ uploadCall.pc = "none"
    /\ ~uploading
    /\ uploadCall.named < MaxNames
    /\ IF Len(files) = 0
       THEN UNCHANGED uploadCall
       ELSE uploadCall' = [pc |-> "getUser", files |-> files,
                           uploadedFiles |-> uploadedFiles, uploadedUrls |-> << >>,
                           k |-> 1, user |-> "null", named |-> uploadCall.named]
    /\ notified' = << >>
    /\ called' = << >>
    /\ UNCHANGED <<uploading, uploadedFiles, medicalRecords, removeCall, objects>>

\* lines 22-63: getUser answers with the user of the session, or null
GetUserResolves(user) ==
    /\ uploadCall.pc = "getUser"
    /\ IF user = "null"
       THEN /\ notified' = <<"Error">>
            /\ called' = << >>
            /\ uploadCall' = [uploadCall EXCEPT !.pc = "none"]
            /\ UNCHANGED <<uploading, uploadedFiles, medicalRecords>>
       ELSE LoopFrom([uploadCall EXCEPT !.user = user], TRUE)
    /\ UNCHANGED <<removeCall, objects>>

\* lines 59-63: the name of the upload awaited
FileName(c) == [folder |-> c.user, file |-> c.named]

\* lines 61-92: the upload answers, with an error (of the network, of the
\* policy, or because the name is taken) or without
UploadResolves(fails) ==
    /\ uploadCall.pc = "upload"
    /\ \E fileName \in {FileName(uploadCall)} :
          IF fails \/ ~ObjectsInsertCheck(uploadCall.user, fileName) \/ fileName \in objects
          THEN /\ notified' = <<"Upload failed">>
               /\ called' = << >>
               /\ uploading' = FALSE
               /\ uploadCall' = [uploadCall EXCEPT !.pc = "none"]
               /\ UNCHANGED <<uploadedFiles, medicalRecords, objects>>
          ELSE /\ objects' = objects \cup {fileName}
               /\ LoopFrom([uploadCall EXCEPT !.uploadedUrls = Append(@, fileName),
                                              !.k = @ + 1], uploading)
    /\ UNCHANGED removeCall

\* lines 95-99: the X of a listed file is clicked
ClickRemove(fileName) ==
    /\ removeCall.pc = "none"
    /\ Includes(uploadedFiles, fileName)
    /\ removeCall' = [pc |-> "remove", fileName |-> fileName,
                      uploadedFiles |-> uploadedFiles]
    /\ notified' = << >>
    /\ called' = << >>
    /\ UNCHANGED <<uploading, uploadedFiles, medicalRecords, uploadCall, objects>>

\* lines 97-110: storage answers; a is who the session says the client is
RemoveResolves(a, fails) ==
    /\ removeCall.pc = "remove"
    /\ IF fails
       THEN /\ notified' = <<"Error">>
            /\ called' = << >>
            /\ UNCHANGED <<uploadedFiles, medicalRecords, objects>>
       ELSE \E newFiles \in {Remove(removeCall.uploadedFiles, removeCall.fileName)} :
                /\ objects' = IF ObjectsDeleteUsing(a, removeCall.fileName)
                              THEN objects \ {removeCall.fileName} ELSE objects
                /\ uploadedFiles' = newFiles
                /\ medicalRecords' = newFiles
                /\ called' = <<[prop |-> "onUploadComplete", arg |-> newFiles]>>
                /\ notified' = <<"Removed">>
    /\ removeCall' = NoRemove
    /\ UNCHANGED <<uploading, uploadCall>>

\* what the upload component leaves alone
UploadRest ==
    <<chatVars, fitness_plans, workout_logs, plans, result, stmt, fnVars, deleting,
      plannerVars, loggerVars>>

UploadNext ==
    \/ \E files \in FileLists : ChooseFiles(files) /\ UNCHANGED UploadRest
    \/ \E user \in {"A", "null"} : GetUserResolves(user) /\ UNCHANGED UploadRest
    \/ \E fails \in BOOLEAN : UploadResolves(fails) /\ UNCHANGED UploadRest
    \/ \E i \in 1..Len(uploadedFiles) : ClickRemove(uploadedFiles[i]) /\ UNCHANGED UploadRest
    \/ \E a \in {"A", Anon}, fails \in BOOLEAN : RemoveResolves(a, fails) /\ UNCHANGED UploadRest

UploadSpec == Init /\ [][UploadNext]_vars

(***************************************************************************)
(* C26.  If handleFileUpload's storage upload fails for any file of a      *)
(* batch, the displayed file list and the parent's record list stay        *)
(* unchanged and onUploadComplete is not called, even for files of the     *)
(* same batch that were already stored; if no upload fails, the new list   *)
(* is the old list followed by exactly the stored names of the files that  *)
(* passed the type and 10MB size checks, in order, and files failing a     *)
(* check are never uploaded; uploading is false afterwards on every path.  *)
(* The old list is the list of the render the files were chosen in.        *)
(***************************************************************************)
Passes(file) ==
    /\ file.type \in {"application/pdf", "image/jpeg", "image/jpg", "image/png", "image/webp"}
    /\ file.size <= 10485760

\* the call returns in this step
UploadReturns == uploadCall.pc # "none" /\ uploadCall'.pc = "none"

\* the upload awaited is answered in this step and nothing is stored
UploadFailed == uploadCall.pc = "upload" /\ uploadCall' # uploadCall /\ objects' = objects

\* the call returns in this step with a user and without a failed upload
UploadSucceeded == UploadReturns /\ ~UploadFailed /\ uploadCall'.user # "null"

C26_FailedUploadKeepsLists ==
    [][UploadFailed =>
          /\ UploadReturns
          /\ uploadedFiles' = uploadedFiles
          /\ medicalRecords' = medicalRecords
          /\ called' = << >>
          /\ ~uploading']_vars

C26_SuccessAppendsStoredNames ==
    [][UploadSucceeded =>
          \A n \in {Cardinality({i \in 1..Len(uploadCall'.files) : Passes(uploadCall'.files[i])})} :
          \A names \in {[j \in 1..n |-> [folder |-> uploadCall'.user,
                                         file |-> uploadCall'.named - n + j]]} :
              /\ \A j \in 1..n : names[j] \in objects'
              /\ uploadedFiles' = uploadCall.uploadedFiles \o names
              /\ medicalRecords' = uploadedFiles'
              /\ called' = <<[prop |-> "onUploadComplete", arg |-> uploadedFiles']>>
              /\ ~uploading']_vars

C26_UploadAllOrNothing ==
    /\ C26_FailedUploadKeepsLists
    /\ C26_SuccessAppendsStoredNames
    /\ [](uploadCall.pc = "upload" => Passes(uploadCall.files[uploadCall.k]))
    /\ [](uploadCall.pc = "none" => ~uploading)

\* the second upload of a batch has failed after the first was stored: the
\* stored file is in neither list
C26_Witness ==
    /\ uploadCall.pc = "none"
    /\ notified = <<"Upload failed">>
    /\ Len(uploadCall.uploadedUrls) = 1
    /\ uploadCall.uploadedUrls[1] \in objects
    /\ ~Includes(uploadedFiles, uploadCall.uploadedUrls[1])
    /\ ~Includes(medicalRecords, uploadCall.uploadedUrls[1])
    /\ ~uploading

(***************************************************************************)
(* ProgressTracker.calculateStats (ProgressTracker.tsx 86-121), studied as *)
(* a function of the logs fetched, of the instant `new Date()` gives and   *)
(* of the time zone of the browser.  Instants are whole hours since        *)
(* 1970-01-01T00:00Z, so 86400000 ms are 24.  workout_date is a            *)
(* `yyyy-MM-dd` text, here its ten characters.  Of the statistics set,     *)
(* currentStreak and totalWorkouts are kept: the durations, the calories   *)
(* and the week are not read by the streak.                                *)
(***************************************************************************)
\* the dates a log can have: this many days from FirstDay on
WindowDays == 5

\* the logs of one date, at most
MaxSameDay == 2

\* `now` is one of this many hours from FirstNow on
NowSpan == 48

\* the proleptic Gregorian calendar of Date: the days from 1970-01-01 to a date
DaysFromCivil(y, m, d) ==
    LET yy == IF m <= 2 THEN y - 1 ELSE y
        era == yy \div 400
        yoe == yy - era * 400
        doy == (153 * (IF m > 2 THEN m - 3 ELSE m + 9) + 2) \div 5 + d - 1
        doe == yoe * 365 + yoe \div 4 - yoe \div 100 + doy
    IN  era * 146097 + doe - 719468

\* and the date that many days after 1970-01-01
CivilFromDays(days) ==
    LET z == days + 719468
        era == z \div 146097
        doe == z - era * 146097
        yoe == (doe - doe \div 1460 + doe \div 36524 - doe \div 146096) \div 365
        doy == doe - (365 * yoe + yoe \div 4 - yoe \div 100)
        mp == (5 * doy + 2) \div 153
        m == IF mp < 10 THEN mp + 3 ELSE mp - 9
    IN  [y |-> yoe + era * 400 + (IF m <= 2 THEN 1 ELSE 0), m |-> m,
         d |-> doy - (153 * mp + 2) \div 5 + 1]

Pad2(n) == IF n < 10 THEN <<"0">> \o IntString(n) ELSE IntString(n)

\* the `yyyy-MM-dd` text of a day (years of four digits)
DateText(days) ==
    LET c == CivilFromDays(days)
    IN  IntString(c.y) \o <<"-">> \o Pad2(c.m) \o <<"-">> \o Pad2(c.d)

\* lines 102-103: new Date("yyyy-MM-dd").getTime(), midnight UTC of the date
DateOfText(text) ==
    24 * DaysFromCivil(DigitsValue(text, 1, 5), DigitsValue(text, 6, 8),
                       DigitsValue(text, 9, 11))

\* the time zones the browser is studied in: one without daylight saving
\* time, one west of Greenwich, and one where the clocks go from 02:00 to
\* 03:00 on 2024-03-31 (at 01:00Z)
Zones == {"UTC", "America/Los_Angeles", "Europe/Berlin"}

\* local time minus UTC at instant t, in hours, over the days studied
UtcOffset(zone, t) ==
    IF zone = "UTC" THEN 0
    ELSE IF zone = "America/Los_Angeles" THEN 0 - 7
    ELSE IF t < 24 * DaysFromCivil(2024, 3, 31) + 1 THEN 1 ELSE 2

\* the local calendar day of instant t, in days since 1970-01-01
LocalDay(zone, t) == (t + UtcOffset(zone, t)) \div 24

\* lines 97-98: date-fns format(date, 'yyyy-MM-dd'), in local time
format(zone, t) == DateText(LocalDay(zone, t))

\* the code unit of a character of a date text
CodeUnit(ch) == IF ch = "-" THEN 45 ELSE 48 + DigitOf(ch)

\* a < b as sort() compares texts: by code units
TextLess(a, b) ==
    \E i \in 1..Min(Len(a), Len(b)) + 1 :
        /\ \A j \in 1..(i - 1) : a[j] = b[j]
        /\ IF i > Len(a) THEN i <= Len(b)
           ELSE i <= Len(b) /\ CodeUnit(a[i]) < CodeUnit(b[i])

\* line 96: xs.sort().reverse() of distinct texts
RECURSIVE SortReverse(_)
SortReverse(xs) ==
    IF xs = << >> THEN << >>
    ELSE LET last == CHOOSE i \in 1..Len(xs) : \A j \in 1..Len(xs) : ~TextLess(xs[i], xs[j])
         IN  <<xs[last]>> \o SortReverse(Remove(xs, xs[last]))

\* lines 101-111: the loop from index i (1-based) on: the streak it ends with
\* when it has counted i - 1 days so far
RECURSIVE Streak(_, _)
Streak(sortedDates, i) ==
    IF i > Len(sortedDates) THEN i - 1
    ELSE LET current == DateOfText(sortedDates[i - 1])
             prev == DateOfText(sortedDates[i])
             diffDays == (current - prev) \div 24
         IN  IF diffDays = 1 THEN Streak(sortedDates, i + 1) ELSE i - 1

\* lines 86-120
calculateStats(workoutLogs, now, zone) ==
    LET sortedDates == SortReverse(Unique([i \in 1..Len(workoutLogs) |->
                                              workoutLogs[i].workout_date]))
        today == format(zone, now)
        yesterday == format(zone, now - 24)
        streak == IF sortedDates # << >>
                     /\ (sortedDates[1] = today \/ sortedDates[1] = yesterday)
                  THEN Streak(sortedDates, 2)
                  ELSE 0
    IN  [totalWorkouts |-> Len(workoutLogs), currentStreak |-> streak]

FirstDay == DaysFromCivil(2024, 3, 29)
FirstNow == 24 * DaysFromCivil(2024, 3, 31)

LogDays == FirstDay..(FirstDay + WindowDays - 1)

\* lines 62-66: the logs fetched, the latest date first; count[d] of them
\* have the date of day d
RECURSIVE LogsOf(_, _)
LogsOf(count, day) ==
    IF day < FirstDay THEN << >>
    ELSE [i \in 1..count[day] |-> [workout_date |-> DateText(day)]]
            \o LogsOf(count, day - 1)

StatsInit ==
    /\ ChatInit
    /\ DbIdle
    /\ HistoryIdle
    /\ PlannerIdle
    /\ UploadIdle
    /\ LoggerIdle
    /\ notified = << >>
    /\ called = << >>
    /\ \E count \in [LogDays -> 0..MaxSameDay], h \in 0..(NowSpan - 1), zone \in Zones :
          args = [fn |-> "stats", workoutLogs |-> LogsOf(count, FirstDay + WindowDays - 1),
                  count |-> count, now |-> FirstNow + h, zone |-> zone]
    /\ returned = [fn |-> "none"]

\* line 74 of fetchLogs
CallCalculateStats ==
    /\ args.fn = "stats"
    /\ returned.fn = "none"
    /\ \E stats \in {calculateStats(args.workoutLogs, args.now, args.zone)} :
          returned' = [fn |-> "stats", totalWorkouts |-> stats.totalWorkouts,
                       currentStreak |-> stats.currentStreak]
    /\ UNCHANGED args

StatsNext == CallCalculateStats /\ UNCHANGED FnRest

StatsSpec == StatsInit /\ [][StatsNext]_vars

(***************************************************************************)
(* C27.  calculateStats sets currentStreak to 0 when the most recent       *)
(* distinct workout date is neither today nor yesterday (including when it *)
(* lies in the future), and otherwise to the length of the maximal run of  *)
(* consecutive calendar days ending at that most recent date; several logs *)
(* on the same date count as one day.                                      *)
(***************************************************************************)
\* the days that have a log
Logged == {d \in LogDays : args.count[d] > 0}

MostRecent == CHOOSE d \in Logged : \A e \in Logged : e <= d

\* the length of the longest run of logged days that ends at day d
RunEndingAt(d) ==
    CHOOSE n \in 1..WindowDays :
        /\ \A k \in 0..(n - 1) : (d - k) \in Logged
        /\ (d - n) \notin Logged

\* today, as the calendar of the browser's zone has it
Today == LocalDay(args.zone, args.now)

ExpectedStreak ==
    IF Logged = {} THEN 0
    ELSE IF MostRecent \notin {Today, Today - 1} THEN 0
    ELSE RunEndingAt(MostRecent)

C27_CurrentStreak ==
    returned.fn = "stats" => returned.currentStreak = ExpectedStreak

\* the same, when the local day before today had 24 hours
C27_CurrentStreakNoClockChange ==
    (returned.fn = "stats" /\ LocalDay(args.zone, args.now - 24) = Today - 1)
        => returned.currentStreak = ExpectedStreak

(***************************************************************************)
(* The Progress page (part_002) and its WorkoutLogger (part_001).          *)
(* handleSubmit runs up to the await of the insert in one step and from    *)
(* the answer to its return in another; the fields of the form can be      *)
(* edited in between (only the button is disabled while loading).  The     *)
(* button is disabled without a user as well: handleSubmit is called here  *)
(* in that case too, as the handler has its own test.  Of the row inserted *)
(* the id, the user and the plan are kept; workoutDate is "today" (the     *)
(* default, the date of the day) or an earlier date.                       *)
(***************************************************************************)
\* the handleSubmit calls of a run, at most
MaxSubmits == 2

\* the exercises offered, of DEFAULT_EXERCISES (part_001 30-39)
LogExercises == {"Push-Ups", "Squats"}

\* of MOOD_OPTIONS (part_001 21-27)
Moods == {"good", "tired"}

\* part_001 52-59
toggleExercise(prev, exercise) ==
    [prev EXCEPT !.exercisesCompleted =
        IF Includes(@, exercise) THEN Remove(@, exercise) ELSE Append(@, exercise)]

ToggleExercise(exercise) ==
    /\ logData' = toggleExercise(logData, exercise)
    /\ notified' = << >>
    /\ called' = << >>
    /\ UNCHANGED <<logUser, logLoading, refreshTrigger, logCall, workout_logs>>

\* the onChange of the date input
SetWorkoutDate(v) ==
    /\ logData' = [logData EXCEPT !.workoutDate = v]
    /\ notified' = << >>
    /\ called' = << >>
    /\ UNCHANGED <<logUser, logLoading, refreshTrigger, logCall, workout_logs>>

\* the onValueChange of the mood radio group
SetMood(v) ==
    /\ logData' = [logData EXCEPT !.mood = v]
    /\ notified' = << >>
    /\ called' = << >>
    /\ UNCHANGED <<logUser, logLoading, refreshTrigger, logCall, workout_logs>>

\* part_002 14-26: the session changes
AuthStateChange(user) ==
    /\ logUser # user
    /\ logUser' = user
    /\ notified' = << >>
    /\ called' = << >>
    /\ UNCHANGED <<logData, logLoading, refreshTrigger, logCall, workout_logs>>

RejectedWithoutUser(user, data) == user = "null"

\* part_001 62-78: the two early returns
Rejected(user, data) == user = "null" \/ Len(data.exercisesCompleted) = 0

\* part_001 61-91: handleSubmit up to the await of the insert
Submit ==
    /\ logCall.pc = "none"
    /\ ~logLoading
    /\ logCall.submits < MaxSubmits
    /\ IF Rejected(logUser, logData)
       THEN /\ notified' = <<IF logUser = "null" THEN "Login Required"
                             ELSE "Select Exercises">>
            /\ logCall' = [pc |-> "none", submits |-> logCall.submits + 1]
            /\ UNCHANGED logLoading
       ELSE /\ notified' = << >>
            /\ logLoading' = TRUE
            /\ logCall' = [pc |-> "insert", submits |-> logCall.submits + 1,
                           row |-> [id |-> logCall.submits + 1, user_id |-> logUser,
                                    fitness_plan_id |-> Null]]
    /\ called' = << >>
    /\ UNCHANGED <<logUser, logData, refreshTrigger, workout_logs>>

\* part_001 91-120 and part_002 29-31: the insert is answered, with an error
\* (of the network or of the policy) or without
InsertResolves(fails) ==
    /\ logCall.pc = "insert"
    /\ IF fails \/ ~LogsInsertCheck(logCall.row.user_id, logCall.row)
       THEN /\ notified' = <<"Error">>
            /\ called' = << >>
            /\ UNCHANGED <<logData, refreshTrigger, workout_logs>>
       ELSE /\ workout_logs' = workout_logs \cup {logCall.row}
            /\ notified' = <<"Workout Logged!">>
            /\ logData' = LogDefaults
            /\ called' = <<[prop |-> "onLogComplete"]>>
            /\ refreshTrigger' = refreshTrigger + 1
    /\ logLoading' = FALSE
    /\ logCall' = [pc |-> "none", submits |-> logCall.submits]
    /\ UNCHANGED logUser

\* what the Progress page leaves alone
LoggerRest ==
    <<chatVars, fitness_plans, objects, plans, result, stmt, fnVars, deleting,
      plannerVars, uploadVars>>

LoggerNext ==
    \/ \E exercise \in LogExercises : ToggleExercise(exercise) /\ UNCHANGED LoggerRest
    \/ \E v \in {"today", "earlier"} : SetWorkoutDate(v) /\ UNCHANGED LoggerRest
    \/ \E v \in Moods : SetMood(v) /\ UNCHANGED LoggerRest
    \/ \E user \in {"A", "null"} : AuthStateChange(user) /\ UNCHANGED LoggerRest
    \/ Submit /\ UNCHANGED LoggerRest
    \/ \E fails \in BOOLEAN : InsertResolves(fails) /\ UNCHANGED LoggerRest

LoggerSpec == Init /\ [][LoggerNext]_vars

(***************************************************************************)
(* C29.  WorkoutLogger.handleSubmit issues no insert when the user is null *)
(* or no exercise is selected; when the insert succeeds the form is reset  *)
(* to its defaults and onLogComplete is called exactly once; when the      *)
(* insert fails the form data is unchanged and onLogComplete is not        *)
(* called; loading is false after every path.                              *)
(***************************************************************************)
\* handleSubmit is called in this step
SubmitStep == logCall'.submits = logCall.submits + 1

\* the insert is answered in this step
InsertAnswered == logCall.pc = "insert" /\ logCall'.pc = "none"

C29_NoInsertWithoutUserOrExercise ==
    [][(SubmitStep /\ (logUser = "null" \/ logData.exercisesCompleted = << >>)) =>
          /\ logCall'.pc = "none"
          /\ workout_logs' = workout_logs
          /\ logData' = logData
          /\ called' = << >>
          /\ refreshTrigger' = refreshTrigger
          /\ ~logLoading']_vars

C29_InsertOutcome ==
    [][InsertAnswered =>
          /\ ~logLoading'
          /\ IF workout_logs' # workout_logs
             THEN /\ logData' = [workoutDate |-> "today", exercisesCompleted |-> << >>,
                                 durationMinutes |-> << >>, caloriesBurned |-> << >>,
                                 mood |-> "good", notes |-> << >>]
                  /\ called' = <<[prop |-> "onLogComplete"]>>
                  /\ refreshTrigger' = refreshTrigger + 1
             ELSE /\ logData' = logData
                  /\ called' = << >>
                  /\ refreshTrigger' = refreshTrigger]_vars

C29_SubmitPaths ==
    /\ C29_NoInsertWithoutUserOrExercise
    /\ C29_InsertOutcome
    /\ [](logCall.pc = "none" => ~logLoading)
    /\ [](refreshTrigger = Cardinality(workout_logs))

\* two workouts have been logged: after the second the form is back to its
\* defaults and the parent has been told once for each
C29_Witness ==
    /\ notified = <<"Workout Logged!">>
    /\ called = <<[prop |-> "onLogComplete"]>>
    /\ logData = LogDefaults
    /\ refreshTrigger = 2
    /\ Cardinality(workout_logs) = 2
    /\ ~logLoading

====
